---- MODULE Spec2Model ----
(***************************************************************************)
(* A model of the libfork work-stealing fork-join runtime.                 *)
(*                                                                         *)
(* Several state machines share this module, each over its own variables   *)
(* and leaving the variables of the others unchanged:                      *)
(*   Spec       the fork / call / join protocol run by a pool of workers   *)
(*              on the recursive fib task (frames, segmented-stack         *)
(*              ownership, per-worker deques and submission lists);        *)
(*   SpecDeque  the Chase-Lev deque, one atomic access per step;           *)
(*   SpecList   the intrusive submission list, one atomic access per step; *)
(*   SpecExc    exceptions thrown by children through fork, call, join;    *)
(*   SpecLazy   the worker loop of lazy_pool with its sleeping protocol,   *)
(*              SpecLazyFair the same under fair scheduling;               *)
(*   SpecStop   lazy_pool and busy_pool up to the end of their destructor; *)
(*   SpecShut   the same for roots that do not fork, SpecShutFair under    *)
(*              fair scheduling;                                           *)
(*   SpecJoin   the steal and join counters of one fork-join scope and the *)
(*              stacks its workers hold, SpecJoinFair the same with every  *)
(*              stolen child returning;                                    *)
(*   SpecFork   a fork whose push onto the deque throws;                   *)
(*   SpecSched  schedule, the future it returns, wait and get;             *)
(*   SpecStack  the segmented stack under LIFO allocate / deallocate;      *)
(*   SpecFibre  the fibre of fibre.hpp under FILO allocate / deallocate.   *)
(***************************************************************************)
EXTENDS Integers, Sequences, FiniteSets, TLC

\* ------------------------------------------------------------------------
\* Bounds of the model
\* ------------------------------------------------------------------------

\* Number of worker threads of the pool.
NWorkers == 2

\* Largest argument given to the root fib task.
FibN == 3

\* Number of resume_on context switches the tasks of one run may perform.
MaxSwitch == 1

\* ------------------------------------------------------------------------
\* Program constants
\* ------------------------------------------------------------------------

k_u16_max == 65535

\* Arithmetic of std::uint16_t / std::atomic_uint16_t.
U16(x) == x % (k_u16_max + 1)

\* ------------------------------------------------------------------------
\* Generic helpers
\* ------------------------------------------------------------------------

RECURSIVE Reverse(_)
Reverse(s) == IF s = <<>> THEN <<>> ELSE Append(Reverse(Tail(s)), Head(s))

Front(s) == SubSeq(s, 1, Len(s) - 1)

Last(s) == s[Len(s)]

SeqToSet(s) == {s[i] : i \in 1..Len(s)}

\* ========================================================================
\* Part 1: the fork / call / join runtime
\* ========================================================================

VARIABLES
  frame,      \* the task frames: status, resume point, stacklet, counters, a, b
  stacklets,  \* the live stacklets: id |-> number of frames allocated on it
  wstack,     \* worker |-> stacklet its thread-local stack points at (m_fib)
  deque,      \* worker |-> its work-stealing deque (top first, bottom last)
  submit,     \* worker |-> its submission list (head first)
  wpc,        \* worker |-> where the worker is in the runtime's code
  cur,        \* worker |-> the frame whose coroutine it is executing
  pending,    \* worker |-> drained submissions still to be resumed
  reg,        \* worker |-> locals of the awaitable it is inside
  mainpc,     \* the non-worker thread calling sync_wait
  arg,        \* the argument of the root task
  sem,        \* the root task's binary semaphore
  result,     \* the future's shared state (the root's return address)
  ret,        \* what sync_wait returned
  nswitch,    \* context switches performed so far
  viol        \* which frames were touched after destruction, destroyed twice ...

rtVars == <<frame, stacklets, wstack, deque, submit, wpc, cur, pending, reg,
            mainpc, arg, sem, result, ret, nswitch, viol>>

Workers == 1..NWorkers

\* The workers of the pool that was constructed (busy_pool(n) starts n threads).
Pool == {w \in Workers : wpc[w] /= "off"}

NoFrame == <<9>>
Undef == -1

\* A frame is named by the path from the root: 0 is the forked child (n - 1),
\* 1 the called child (n - 2).
RECURSIVE Paths(_)
Paths(d) == IF d = 0 THEN {<<>>}
            ELSE LET P == Paths(d - 1)
                 IN P \cup {Append(p, c) : p \in {q \in P : Len(q) = d - 1}, c \in {0, 1}}

FrameIds == Paths(IF FibN > 1 THEN FibN - 1 ELSE 0)

Root == <<>>

RECURSIVE Spent(_)
Spent(p) == IF p = <<>> THEN 0 ELSE Spent(Front(p)) + (IF Last(p) = 0 THEN 1 ELSE 2)

\* The argument n of the fib task at path p.
ArgOf(p) == arg - Spent(p)

\* frame::parent()
ParentOf(p) == Front(p)

\* The dispatch tag of the coroutine's promise.
TagOf(p) == IF p = <<>> THEN "root" ELSE IF Last(p) = 0 THEN "fork" ELSE "call"

ForkChild(p) == Append(p, 0)
CallChild(p) == Append(p, 1)

\* The sequential function the task computes.
RECURSIVE fib_ref(_)
fib_ref(n) == IF n < 2 THEN n ELSE fib_ref(n - 1) + fib_ref(n - 2)

\* What a read of an int that was never written may give.
UninitValues == {0, 1, 2}

ReadInt(x) == IF x = Undef THEN UninitValues ELSE {x}

Unborn == [st |-> "unborn", rp |-> "none", stacklet |-> Undef,
           join |-> k_u16_max, steal |-> 0, a |-> Undef, b |-> Undef]

\* frame::frame and promise::promise: the frame of a coroutine allocated on
\* the stacklet s, suspended at its initial suspend point.
NewFrame(s) == [st |-> "alive", rp |-> "start", stacklet |-> s,
                join |-> k_u16_max, steal |-> 0, a |-> Undef, b |-> Undef]

Dead == [Unborn EXCEPT !.st = "dead"]

NoReg == [par |-> NoFrame, steals |-> 0]

\* std::malloc of a stacklet: an address that is not in use (a freed address
\* may be handed out again).
FreshStacklet(live) == CHOOSE s \in 0..Cardinality(live) : s \notin live

\* stack::allocate, as far as the runtime sees it: one more allocation on the
\* chain that stacklet s is the top of.
allocate(stk, s) == IF s \in DOMAIN stk THEN [stk EXCEPT ![s] = @ + 1] ELSE stk

\* stack::deallocate.
deallocate(stk, s) == IF s \in DOMAIN stk THEN [stk EXCEPT ![s] = @ - 1] ELSE stk

\* A faulty release that keeps the stacklet it should give up.
releaseKeeps(held, live) == held

\* stack::release: the stacklet m_fib is exchanged for (next_stacklet()); the
\* old one, held, lives on with whoever takes it.
release(held, live) == FreshStacklet(live)

\* std::free of the stacklet a stack object held when it is destroyed.
FreeStacklet(stk, s) == [x \in DOMAIN stk \ {s} |-> stk[x]]

\* stacklet::next_stacklet(): a new empty stacklet.
AddStacklet(stk, s) == [x \in DOMAIN stk \cup {s} |-> IF x = s THEN 0 ELSE stk[x]]

\* Dereferencing a frame that is not alive.
Touch(S) == {<<"uaf", f>> : f \in {g \in S : g \notin FrameIds \/ frame[g].st /= "alive"}}

\* The state after busy_pool(n) has started its n workers.
InitPool(n) ==
  /\ frame = [p \in FrameIds |-> Unborn]
  /\ stacklets = [w \in Workers |-> 0]
  /\ wstack = [w \in Workers |-> w]
  /\ deque = [w \in Workers |-> <<>>]
  /\ submit = [w \in Workers |-> <<>>]
  /\ wpc = [w \in Workers |-> IF w <= n THEN "loop" ELSE "off"]
  /\ cur = [w \in Workers |-> NoFrame]
  /\ pending = [w \in Workers |-> <<>>]
  /\ reg = [w \in Workers |-> NoReg]
  /\ mainpc = "init"
  /\ arg = 0
  /\ sem = 0
  /\ result = Undef
  /\ ret = Undef
  /\ nswitch = 0
  /\ viol = {}

InitRT == \E n \in Workers : InitPool(n)

\* ------------------------------------------------------------------------
\* Building blocks
\* ------------------------------------------------------------------------

\* Control returns from coroutine code (std::noop_coroutine) to the caller of
\* resume(): the for_each_elem loop over the drained submissions, or the
\* worker's event loop.
AfterResume(w) == IF pending[w] = <<>> THEN "loop" ELSE "drain"

\* A faulty reset that clears the steals and leaves the join counter.
ResetStealsOnly(fr) == [fr EXCEPT !.steal = 0]

\* frame::reset
reset(fr) == [fr EXCEPT !.steal = 0, !.join = k_u16_max]

\* Faulty variants of the three tests below, each dropping the comparison:
\* the properties of Part 4 depend on the comparisons and fail with these.
JoinReadyAlways(steals, joins) == TRUE

JoinReadyNever(steals, joins) == FALSE

JoinWonAlways(steals, joined) == TRUE

LastChildAlways(old) == TRUE

LastChildNever(old) == FALSE

\* A faulty first test of await_ready that never takes the shortcut.
NoStealsNever(steals) == FALSE

\* join_awaitable::await_ready: no steals, the worker is the only owner of the
\* frame and the join has nothing to wait for.
NoSteals(steals) == steals = 0

\* join_awaitable::await_ready: have all stolen children joined
JoinReady(steals, joins) == steals = k_u16_max - joins

\* join_awaitable::await_suspend: did the join's fetch_sub come last
JoinWon(steals, joined) == steals = k_u16_max - joined

\* detail::final_await_suspend: is this the last child of a published join
LastChild(old) == old = 1

\* A faulty push that puts the handle at the top end.
DequePushTop(d, x) == <<x>> \o d

\* Faulty variants that hand out a handle and leave it in the deque.
DequePopKeeps(d) == d

DequeStealKeeps(d) == d

\* deque::push / pop / steal as seen by the runtime (Part 2 models them
\* access by access).
DequePush(d, x) == Append(d, x)
DequePop(d) == Front(d)
DequeSteal(d) == Tail(d)

\* intrusive_list::push and try_pop_all as seen by the runtime (Part 3 models
\* them access by access).
ListPush(l, x) == <<x>> \o l
ListPopAll(l) == Reverse(l)

\* ------------------------------------------------------------------------
\* The non-worker thread: sync_wait = schedule(...).get()
\* ------------------------------------------------------------------------

\* lf::schedule: build the root task on a transient stack, release that
\* stack (the root keeps its stacklet), hand the node to a worker's
\* submission list; the transient replacement stack dies with the scope.
Schedule(d, n) ==
  /\ mainpc = "init"
  /\ LET s == FreshStacklet(DOMAIN stacklets)
     IN /\ stacklets' = allocate(AddStacklet(stacklets, s), s)
        /\ frame' = [frame EXCEPT ![Root] = NewFrame(s)]
  /\ arg' = n
  /\ submit' = [submit EXCEPT ![d] = ListPush(@, Root)]
  /\ mainpc' = "wait"
  /\ UNCHANGED <<wstack, deque, wpc, cur, pending, reg, sem, result, ret, nswitch, viol>>

\* future::get: acquire the semaphore, then move the value out.
Get ==
  /\ mainpc = "wait"
  /\ sem = 1
  /\ sem' = 0
  /\ ret' = result
  /\ mainpc' = "done"
  /\ UNCHANGED <<frame, stacklets, wstack, deque, submit, wpc, cur, pending, reg,
                 arg, result, nswitch, viol>>

\* ------------------------------------------------------------------------
\* The worker's event loop (busy_work) and resume()
\* ------------------------------------------------------------------------

\* my_context->try_pop_all()
TryPopAll(w) ==
  /\ wpc[w] = "loop"
  /\ pending' = [pending EXCEPT ![w] = ListPopAll(submit[w])]
  /\ submit' = [submit EXCEPT ![w] = <<>>]
  /\ wpc' = [wpc EXCEPT ![w] = IF submit[w] = <<>> THEN "steal" ELSE "drain"]
  /\ UNCHANGED <<frame, stacklets, wstack, deque, cur, reg, mainpc, arg, sem,
                 result, ret, nswitch, viol>>

\* resume(submit_handle), one element of for_each_elem: a task that was
\* never stolen brings its stack with it.
ResumeSubmitted(w) ==
  /\ wpc[w] = "drain"
  /\ LET f == Head(pending[w])
         own == frame[f].steal = 0
     IN /\ wstack' = [wstack EXCEPT ![w] = IF own THEN frame[f].stacklet ELSE @]
        /\ stacklets' = IF own THEN FreeStacklet(stacklets, wstack[w]) ELSE stacklets
        /\ cur' = [cur EXCEPT ![w] = f]
        /\ viol' = viol \cup Touch({f})
  /\ pending' = [pending EXCEPT ![w] = Tail(@)]
  /\ wpc' = [wpc EXCEPT ![w] = "run"]
  /\ UNCHANGED <<frame, deque, submit, reg, mainpc, arg, sem, result, ret, nswitch>>

\* numa_context::try_steal succeeds on victim v, then resume(task_handle):
\* the thief increments the steal counter and resumes the continuation.
StealOk(w, v) ==
  /\ wpc[w] = "steal"
  /\ v \in Pool
  /\ v /= w
  /\ deque[v] /= <<>>
  /\ LET f == Head(deque[v])
     IN /\ deque' = [deque EXCEPT ![v] = DequeSteal(@)]
        /\ frame' = [frame EXCEPT ![f].steal = U16(@ + 1)]
        /\ cur' = [cur EXCEPT ![w] = f]
        /\ viol' = viol \cup Touch({f})
  /\ wpc' = [wpc EXCEPT ![w] = "run"]
  /\ UNCHANGED <<stacklets, wstack, submit, pending, reg, mainpc, arg, sem, result,
                 ret, nswitch>>

\* try_steal returns nullptr: no neighbour, every probe empty or lost.
StealFail(w) ==
  /\ wpc[w] = "steal"
  /\ wpc' = [wpc EXCEPT ![w] = "loop"]
  /\ UNCHANGED <<frame, stacklets, wstack, deque, submit, cur, pending, reg, mainpc,
                 arg, sem, result, ret, nswitch, viol>>

\* ------------------------------------------------------------------------
\* The task body (fib) and its awaitables
\* ------------------------------------------------------------------------

Running(w) == wpc[w] = "run" /\ cur[w] \in FrameIds

\* co_await resume_on(dest), dest another worker's context, awaited at the
\* head of the body or between the fork and the call:
\* context_switch_awaitable::await_suspend up to and including
\* external.await_suspend(&self), i.e. dest->schedule(node).
SwitchSubmit(w, d) ==
  /\ Running(w)
  /\ frame[cur[w]].rp \in {"start", "after_fork"}
  /\ d \in Pool
  /\ d /= w
  /\ nswitch < MaxSwitch
  /\ LET f == cur[w]
     IN /\ reg' = [reg EXCEPT ![w] = [NoReg EXCEPT !.steals = frame[f].steal]]
        /\ submit' = [submit EXCEPT ![d] = ListPush(@, f)]
        /\ viol' = viol \cup Touch({f})
  /\ nswitch' = nswitch + 1
  /\ cur' = [cur EXCEPT ![w] = NoFrame]
  /\ wpc' = [wpc EXCEPT ![w] = "switch"]
  /\ UNCHANGED <<frame, stacklets, wstack, deque, pending, mainpc, arg, sem, result,
                 ret>>

\* A faulty test that gives the stack up at every context switch.
GivesStackAlways(steals) == TRUE

\* context_switch_awaitable::await_suspend: does the resumer take the stack
GivesStack(steals) == steals = 0

\* context_switch_awaitable::await_suspend after the hand-off: release the
\* stack if the task had never been stolen, then go on to try_self_stealing.
SwitchRelease(w) ==
  /\ wpc[w] = "switch"
  /\ IF GivesStack(reg[w].steals)
       THEN LET s == release(wstack[w], DOMAIN stacklets)
            IN /\ stacklets' = AddStacklet(stacklets, s)
               /\ wstack' = [wstack EXCEPT ![w] = s]
       ELSE UNCHANGED <<stacklets, wstack>>
  /\ reg' = [reg EXCEPT ![w] = NoReg]
  /\ wpc' = [wpc EXCEPT ![w] = "selfsteal"]
  /\ UNCHANGED <<frame, deque, submit, cur, pending, mainpc, arg, sem, result, ret,
                 nswitch, viol>>

\* A faulty try_self_stealing that never finds an ancestor.
EffStolenNever(d) == FALSE

\* try_self_stealing: does pop() return an effectively stolen ancestor
EffStolen(d) == d /= <<>>

\* try_self_stealing: pop an effectively stolen ancestor, count the steal,
\* resume it; with an empty deque control returns to the caller of resume().
SelfStealOk(w) ==
  /\ wpc[w] = "selfsteal"
  /\ EffStolen(deque[w])
  /\ LET f == Last(deque[w])
     IN /\ deque' = [deque EXCEPT ![w] = DequePop(@)]
        /\ frame' = [frame EXCEPT ![f].steal = U16(@ + 1)]
        /\ cur' = [cur EXCEPT ![w] = f]
        /\ viol' = viol \cup Touch({f})
  /\ wpc' = [wpc EXCEPT ![w] = "run"]
  /\ UNCHANGED <<stacklets, wstack, submit, pending, reg, mainpc, arg, sem, result,
                 ret, nswitch>>

SelfStealNone(w) ==
  /\ wpc[w] = "selfsteal"
  /\ ~EffStolen(deque[w])
  /\ wpc' = [wpc EXCEPT ![w] = AfterResume(w)]
  /\ UNCHANGED <<frame, stacklets, wstack, deque, submit, cur, pending, reg, mainpc,
                 arg, sem, result, ret, nswitch, viol>>

\* co_await lf::fork(a, fib)(n - 1): the child coroutine is allocated on the
\* worker's stack, fork_awaitable::await_suspend pushes the parent's
\* continuation and transfers to the child.
Fork(w) ==
  /\ Running(w)
  /\ frame[cur[w]].rp = "start"
  /\ ArgOf(cur[w]) >= 2
  /\ LET f == cur[w]
         c == ForkChild(f)
     IN /\ frame' = [frame EXCEPT ![f].rp = "after_fork", ![c] = NewFrame(wstack[w])]
        /\ stacklets' = allocate(stacklets, wstack[w])
        /\ deque' = [deque EXCEPT ![w] = DequePush(@, f)]
        /\ cur' = [cur EXCEPT ![w] = c]
        /\ viol' = viol \cup Touch({f})
  /\ UNCHANGED <<wstack, submit, wpc, pending, reg, mainpc, arg, sem, result, ret,
                 nswitch>>

\* co_await lf::call(b, fib)(n - 2): call_awaitable::await_suspend transfers
\* to the child, the continuation is not published.
Call(w) ==
  /\ Running(w)
  /\ frame[cur[w]].rp = "after_fork"
  /\ LET f == cur[w]
         c == CallChild(f)
     IN /\ frame' = [frame EXCEPT ![f].rp = "after_call", ![c] = NewFrame(wstack[w])]
        /\ stacklets' = allocate(stacklets, wstack[w])
        /\ cur' = [cur EXCEPT ![w] = c]
        /\ viol' = viol \cup Touch({f})
  /\ UNCHANGED <<wstack, deque, submit, wpc, pending, reg, mainpc, arg, sem, result,
                 ret, nswitch>>

\* A faulty take_stack_reset_frame that resets the frame and leaves the
\* worker on the stack it had.
ResetFrameOnly(w, f) ==
  /\ UNCHANGED <<stacklets, wstack>>
  /\ frame' = [frame EXCEPT ![f] = [reset(@) EXCEPT !.rp = "after_join"]]

\* join_awaitable::take_stack_reset_frame, by worker w on frame f.
TakeStackResetFrame(w, f) ==
  /\ stacklets' = FreeStacklet(stacklets, wstack[w])
  /\ wstack' = [wstack EXCEPT ![w] = frame[f].stacklet]
  /\ frame' = [frame EXCEPT ![f] = [reset(@) EXCEPT !.rp = "after_join"]]

\* co_await lf::join, join_awaitable::await_ready.
JoinAwaitReady(w) ==
  /\ Running(w)
  /\ frame[cur[w]].rp = "after_call"
  /\ LET f == cur[w]
     IN /\ viol' = viol \cup Touch({f})
        /\ IF NoSteals(frame[f].steal)
             THEN /\ frame' = [frame EXCEPT ![f].rp = "after_join"]
                  /\ UNCHANGED <<stacklets, wstack, wpc>>
             ELSE IF JoinReady(frame[f].steal, frame[f].join)
                    THEN /\ TakeStackResetFrame(w, f)
                         /\ UNCHANGED wpc
                    ELSE /\ frame' = [frame EXCEPT ![f].rp = "at_join"]
                         /\ wpc' = [wpc EXCEPT ![w] = "join_suspend"]
                         /\ UNCHANGED <<stacklets, wstack>>
  /\ UNCHANGED <<deque, submit, cur, pending, reg, mainpc, arg, sem, result, ret,
                 nswitch>>

\* join_awaitable::await_suspend: publish the join with one fetch_sub; the
\* winner takes the stack and resumes the task, the loser may not touch it.
JoinAwaitSuspend(w) ==
  /\ wpc[w] = "join_suspend"
  /\ LET f == cur[w]
         steals == frame[f].steal
         joined == frame[f].join
     IN /\ viol' = viol \cup Touch({f})
        /\ IF JoinWon(steals, joined)
             THEN /\ TakeStackResetFrame(w, f)
                  /\ wpc' = [wpc EXCEPT ![w] = "run"]
                  /\ UNCHANGED cur
             ELSE /\ frame' = [frame EXCEPT ![f].join = U16(joined + (k_u16_max + 1)
                                                              - (k_u16_max - steals))]
                  /\ wpc' = [wpc EXCEPT ![w] = "selfsteal"]
                  /\ cur' = [cur EXCEPT ![w] = NoFrame]
                  /\ UNCHANGED <<stacklets, wstack>>
  /\ UNCHANGED <<deque, submit, pending, reg, mainpc, arg, sem, result, ret, nswitch>>

\* co_return: the value the body returns from its current resume point
\* (n itself below 2, a + b after the join).
ReturnValues(f) ==
  IF frame[f].rp = "after_join"
    THEN {va + vb : va \in ReadInt(frame[f].a), vb \in ReadInt(frame[f].b)}
    ELSE {ArgOf(f)}

AtReturn(w) ==
  /\ Running(w)
  /\ \/ frame[cur[w]].rp = "start" /\ ArgOf(cur[w]) < 2
     \/ frame[cur[w]].rp = "after_join"

\* child.destroy() by worker w: the promise's destructor and operator delete
\* (deallocation from the worker's current stack).
DestroyedBy(w, f) ==
  {<<"destroyed_twice", f>> : x \in {1} \ {y \in {1} : frame[f].st = "alive"}}
  \cup {<<"wrong_stack", f>> : x \in {1} \ {y \in {1} : wstack[w] = frame[f].stacklet}}

\* promise<R, I, tag::root>: return_value into the future's shared state,
\* final_awaitable::await_suspend releases the semaphore and destroys.
FinishRoot(w) ==
  /\ AtReturn(w)
  /\ TagOf(cur[w]) = "root"
  /\ LET f == cur[w]
     IN /\ \E v \in ReturnValues(f) : result' = v
        /\ frame' = [frame EXCEPT ![f] = Dead]
        /\ stacklets' = deallocate(stacklets, wstack[w])
        /\ viol' = viol \cup Touch({f}) \cup DestroyedBy(w, f)
  /\ sem' = 1
  /\ cur' = [cur EXCEPT ![w] = NoFrame]
  /\ wpc' = [wpc EXCEPT ![w] = AfterResume(w)]
  /\ UNCHANGED <<wstack, deque, submit, pending, reg, mainpc, arg, ret, nswitch>>

\* promise<R, I, tag::call>: return_value into the parent's b, destroy, and
\* final_awaitable::await_suspend resumes the parent.
FinishCall(w) ==
  /\ AtReturn(w)
  /\ TagOf(cur[w]) = "call"
  /\ LET f == cur[w]
         p == ParentOf(f)
     IN /\ \E v \in ReturnValues(f) : frame' = [frame EXCEPT ![p].b = v, ![f] = Dead]
        /\ stacklets' = deallocate(stacklets, wstack[w])
        /\ viol' = viol \cup Touch({f, p}) \cup DestroyedBy(w, f)
        /\ cur' = [cur EXCEPT ![w] = p]
  /\ UNCHANGED <<wstack, deque, submit, wpc, pending, reg, mainpc, arg, sem, result,
                 ret, nswitch>>

\* promise<R, I, tag::fork>: return_value into the parent's a, destroy, then
\* detail::final_await_suspend: pop() returned a handle, the parent was not
\* stolen and is resumed.
FinishForkPopped(w) ==
  /\ AtReturn(w)
  /\ TagOf(cur[w]) = "fork"
  /\ deque[w] /= <<>>
  /\ LET f == cur[w]
         p == ParentOf(f)
     IN /\ \E v \in ReturnValues(f) : frame' = [frame EXCEPT ![p].a = v, ![f] = Dead]
        /\ stacklets' = deallocate(stacklets, wstack[w])
        /\ deque' = [deque EXCEPT ![w] = DequePop(@)]
        /\ viol' = viol \cup Touch({f, p}) \cup DestroyedBy(w, f)
        /\ cur' = [cur EXCEPT ![w] = p]
  /\ UNCHANGED <<wstack, submit, wpc, pending, reg, mainpc, arg, sem, result, ret,
                 nswitch>>

\* The same with pop() returning nothing: the parent's continuation was
\* stolen; the worker goes on to the join counter.
FinishForkStolen(w) ==
  /\ AtReturn(w)
  /\ TagOf(cur[w]) = "fork"
  /\ deque[w] = <<>>
  /\ LET f == cur[w]
         p == ParentOf(f)
     IN /\ \E v \in ReturnValues(f) : frame' = [frame EXCEPT ![p].a = v, ![f] = Dead]
        /\ stacklets' = deallocate(stacklets, wstack[w])
        /\ viol' = viol \cup Touch({f, p}) \cup DestroyedBy(w, f)
        /\ reg' = [reg EXCEPT ![w] = [NoReg EXCEPT !.par = p]]
  /\ cur' = [cur EXCEPT ![w] = NoFrame]
  /\ wpc' = [wpc EXCEPT ![w] = "decr"]
  /\ UNCHANGED <<wstack, deque, submit, pending, mainpc, arg, sem, result, ret,
                 nswitch>>

\* detail::final_await_suspend: parent->fetch_sub_joins(1) finds the join
\* published and this child the last one: take the parent's stack if it is
\* another one, reset the parent, resume it.
ChildJoinsLast(w) ==
  /\ wpc[w] = "decr"
  /\ LET p == reg[w].par
     IN /\ LastChild(frame[p].join)
        /\ IF frame[p].stacklet /= wstack[w]
             THEN /\ stacklets' = FreeStacklet(stacklets, wstack[w])
                  /\ wstack' = [wstack EXCEPT ![w] = frame[p].stacklet]
             ELSE UNCHANGED <<stacklets, wstack>>
        /\ frame' = [frame EXCEPT ![p] = [reset(@) EXCEPT !.rp = "after_join"]]
        /\ cur' = [cur EXCEPT ![w] = p]
        /\ viol' = viol \cup Touch({p})
  /\ reg' = [reg EXCEPT ![w] = NoReg]
  /\ wpc' = [wpc EXCEPT ![w] = "run"]
  /\ UNCHANGED <<deque, submit, pending, mainpc, arg, sem, result, ret, nswitch>>

\* A faulty test that takes every parent to live on the worker's stack.
SameStackAlways(p_stacklet, c_stacklet) == TRUE

\* detail::final_await_suspend: is the parent on the stack the child was on
SameStack(p_stacklet, c_stacklet) == p_stacklet = c_stacklet

\* detail::final_await_suspend: the decrement is not the last one, or no join
\* is published yet. The worker may not touch the parent any more; it has
\* still to give up the stack if the parent lives on it.
ChildJoinsEarly(w) ==
  /\ wpc[w] = "decr"
  /\ LET p == reg[w].par
     IN /\ ~LastChild(frame[p].join)
        /\ frame' = [frame EXCEPT ![p].join = U16(@ + k_u16_max)]
        /\ wpc' = [wpc EXCEPT ![w] = IF SameStack(frame[p].stacklet, wstack[w])
                                        THEN "lost" ELSE AfterResume(w)]
        /\ viol' = viol \cup Touch({p})
  /\ reg' = [reg EXCEPT ![w] = NoReg]
  /\ UNCHANGED <<stacklets, wstack, deque, submit, cur, pending, mainpc, arg, sem,
                 result, ret, nswitch>>

\* detail::final_await_suspend: tls_stack->release() after a lost join race.
ReleaseAfterLoss(w) ==
  /\ wpc[w] = "lost"
  /\ LET s == release(wstack[w], DOMAIN stacklets)
     IN /\ stacklets' = AddStacklet(stacklets, s)
        /\ wstack' = [wstack EXCEPT ![w] = s]
  /\ wpc' = [wpc EXCEPT ![w] = AfterResume(w)]
  /\ UNCHANGED <<frame, deque, submit, cur, pending, reg, mainpc, arg, sem, result,
                 ret, nswitch, viol>>

WorkerStep(w) ==
  \/ TryPopAll(w)
  \/ ResumeSubmitted(w)
  \/ \E v \in Workers : StealOk(w, v)
  \/ StealFail(w)
  \/ \E d \in Workers : SwitchSubmit(w, d)
  \/ SwitchRelease(w)
  \/ SelfStealOk(w)
  \/ SelfStealNone(w)
  \/ Fork(w)
  \/ Call(w)
  \/ JoinAwaitReady(w)
  \/ JoinAwaitSuspend(w)
  \/ FinishRoot(w)
  \/ FinishCall(w)
  \/ FinishForkPopped(w)
  \/ FinishForkStolen(w)
  \/ ChildJoinsLast(w)
  \/ ChildJoinsEarly(w)
  \/ ReleaseAfterLoss(w)

NextRT ==
  \/ \E d \in Pool, n \in 0..FibN : Schedule(d, n)
  \/ Get
  \/ \E w \in Pool : WorkerStep(w)

\* ========================================================================
\* Part 2: the Chase-Lev deque, one atomic access per step
\* ========================================================================
\*
\* One owner thread calls push and pop, NThieves threads call steal.  The
\* accesses are interleaved in one total order (the seq_cst fences of pop and
\* steal and the release / acquire pairs on m_bottom and m_top order the
\* accesses the algorithm relies on).  Handles are numbered 1, 2, ... in the
\* order they are pushed.

\* The deque is constructed with capacity 2^LogCap.
LogCap == 0

\* Number of handles the owner pushes: more than the initial capacity.
MaxPush == 2

\* Number of concurrent thieves.
NThieves == 2

InitialCap == 2 ^ LogCap

Thieves == 1..NThieves

\* The content of a slot that was never stored to (make_unique_for_overwrite).
Junk == 0

VARIABLES
  m_top,      \* deque::m_top
  m_bottom,   \* deque::m_bottom
  m_buf,      \* deque::m_buf, as an index into heap
  m_garbage,  \* deque::m_garbage: the retired buffers, kept until destruction
  heap,       \* every atomic_ring_buf allocated so far
  opc,        \* where the owner is inside push / pop
  ol,         \* the owner's locals
  tpc,        \* thief |-> where it is inside steal
  tl,         \* thief |-> its locals
  npushed,    \* push calls so far
  log         \* what successful pops and steals returned, in order

dqVars == <<m_top, m_bottom, m_buf, m_garbage, heap, opc, ol, tpc, tl, npushed, log>>

\* atomic_ring_buf::atomic_ring_buf(cap)
atomic_ring_buf(cap) == [m_cap |-> cap, slots |-> [i \in 0..(cap - 1) |-> Junk]]

\* atomic_ring_buf::capacity
capacity(b) == b.m_cap

\* atomic_ring_buf::store and load: index & m_mask, m_mask = m_cap - 1 and
\* m_cap a power of two.
store(b, index, val) == [b EXCEPT !.slots[index % b.m_cap] = val]

load(b, index) == b.slots[index % b.m_cap]

\* The loop of atomic_ring_buf::resize.
RECURSIVE CopyRange(_, _, _, _)
CopyRange(ptr, b, i, bot) ==
  IF i = bot THEN ptr ELSE CopyRange(store(ptr, i, load(b, i)), b, i + 1, bot)

\* A faulty resize that allocates the bigger buffer and copies nothing.
resizeEmpty(b, bot, top) == atomic_ring_buf(2 * b.m_cap)

\* atomic_ring_buf::resize
resize(b, bot, top) == CopyRange(atomic_ring_buf(2 * b.m_cap), b, top, bot)

\* A faulty pop that never takes the compare-exchange path.
LastItemNever(top, bottom) == FALSE

\* deque::pop: the tests on the loaded top.
NonEmpty(top, bottom) == top <= bottom

LastItem(top, bottom) == top = bottom

NoLocals == [bottom |-> 0, top |-> 0, buf |-> 0, val |-> 0]

InitDeque ==
  /\ m_top = 0
  /\ m_bottom = 0
  /\ m_buf = 1
  /\ m_garbage = <<>>
  /\ heap = <<atomic_ring_buf(InitialCap)>>
  /\ opc = "idle"
  /\ ol = NoLocals
  /\ tpc = [t \in Thieves |-> "idle"]
  /\ tl = [t \in Thieves |-> NoLocals]
  /\ npushed = 0
  /\ log = <<>>

Returns(op, v) == Append(log, [op |-> op, val |-> v, n |-> npushed])

\* push: the three loads and the capacity test.
PushBegin ==
  /\ opc = "idle"
  /\ npushed < MaxPush
  /\ npushed' = npushed + 1
  /\ ol' = [bottom |-> m_bottom, top |-> m_top, buf |-> m_buf, val |-> npushed + 1]
  /\ opc' = IF capacity(heap[m_buf]) < (m_bottom - m_top) + 1
              THEN "push_resize" ELSE "push_store"
  /\ UNCHANGED <<m_top, m_bottom, m_buf, m_garbage, heap, tpc, tl, log>>

\* push: buf->resize(bottom, top), the old buffer goes to m_garbage, the
\* new one is stored to m_buf.
PushResize ==
  /\ opc = "push_resize"
  /\ heap' = Append(heap, resize(heap[ol.buf], ol.bottom, ol.top))
  /\ m_garbage' = Append(m_garbage, ol.buf)
  /\ m_buf' = Len(heap) + 1
  /\ ol' = [ol EXCEPT !.buf = Len(heap) + 1]
  /\ opc' = "push_store"
  /\ UNCHANGED <<m_top, m_bottom, tpc, tl, npushed, log>>

\* push: buf->store(bottom, val)
PushStore ==
  /\ opc = "push_store"
  /\ heap' = [heap EXCEPT ![ol.buf] = store(@, ol.bottom, ol.val)]
  /\ opc' = "push_publish"
  /\ UNCHANGED <<m_top, m_bottom, m_buf, m_garbage, ol, tpc, tl, npushed, log>>

\* push: m_bottom.store(bottom + 1)
PushPublish ==
  /\ opc = "push_publish"
  /\ m_bottom' = ol.bottom + 1
  /\ opc' = "idle"
  /\ ol' = NoLocals
  /\ UNCHANGED <<m_top, m_buf, m_garbage, heap, tpc, tl, npushed, log>>

\* pop: bottom = m_bottom - 1, buf = m_buf, m_bottom.store(bottom)
PopBegin ==
  /\ opc = "idle"
  /\ ol' = [NoLocals EXCEPT !.bottom = m_bottom - 1, !.buf = m_buf]
  /\ m_bottom' = m_bottom - 1
  /\ opc' = "pop_load"
  /\ UNCHANGED <<m_top, m_buf, m_garbage, heap, tpc, tl, npushed, log>>

\* pop: top = m_top.load, more than one item left: return buf->load(bottom)
PopTake ==
  /\ opc = "pop_load"
  /\ NonEmpty(m_top, ol.bottom)
  /\ ~LastItem(m_top, ol.bottom)
  /\ log' = Returns("pop", load(heap[ol.buf], ol.bottom))
  /\ opc' = "idle"
  /\ ol' = NoLocals
  /\ UNCHANGED <<m_top, m_bottom, m_buf, m_garbage, heap, tpc, tl, npushed>>

\* pop: top = m_top.load, one item left: go on to the compare-exchange
PopLast ==
  /\ opc = "pop_load"
  /\ NonEmpty(m_top, ol.bottom)
  /\ LastItem(m_top, ol.bottom)
  /\ ol' = [ol EXCEPT !.top = m_top]
  /\ opc' = "pop_cas"
  /\ UNCHANGED <<m_top, m_bottom, m_buf, m_garbage, heap, tpc, tl, npushed, log>>

\* pop: top = m_top.load, the deque is empty
PopEmpty ==
  /\ opc = "pop_load"
  /\ ~NonEmpty(m_top, ol.bottom)
  /\ opc' = "pop_restore"
  /\ UNCHANGED <<m_top, m_bottom, m_buf, m_garbage, heap, ol, tpc, tl, npushed, log>>

\* pop: m_top.compare_exchange_strong(top, top + 1) succeeds
PopCasWon ==
  /\ opc = "pop_cas"
  /\ m_top = ol.top
  /\ m_top' = ol.top + 1
  /\ opc' = "pop_restore_won"
  /\ UNCHANGED <<m_bottom, m_buf, m_garbage, heap, ol, tpc, tl, npushed, log>>

\* pop: the compare-exchange fails, a thief got the last item
PopCasLost ==
  /\ opc = "pop_cas"
  /\ m_top /= ol.top
  /\ opc' = "pop_restore"
  /\ UNCHANGED <<m_top, m_bottom, m_buf, m_garbage, heap, ol, tpc, tl, npushed, log>>

\* A faulty pop that leaves m_bottom as it set it on entry.
RestoredKeeps(bottom) == bottom

\* pop: the value stored back to m_bottom on every path that decremented it
\* and took nothing, or took the last item.
Restored(bottom) == bottom + 1

\* pop: m_bottom.store(bottom + 1), return when_empty()
PopRestore ==
  /\ opc = "pop_restore"
  /\ m_bottom' = Restored(ol.bottom)
  /\ opc' = "idle"
  /\ ol' = NoLocals
  /\ UNCHANGED <<m_top, m_buf, m_garbage, heap, tpc, tl, npushed, log>>

\* pop: m_bottom.store(bottom + 1), return buf->load(bottom)
PopRestoreWon ==
  /\ opc = "pop_restore_won"
  /\ m_bottom' = Restored(ol.bottom)
  /\ log' = Returns("pop", load(heap[ol.buf], ol.bottom))
  /\ opc' = "idle"
  /\ ol' = NoLocals
  /\ UNCHANGED <<m_top, m_buf, m_garbage, heap, tpc, tl, npushed>>

\* steal: top = m_top.load
StealLoadTop(t) ==
  /\ tpc[t] = "idle"
  /\ tl' = [tl EXCEPT ![t] = [NoLocals EXCEPT !.top = m_top]]
  /\ tpc' = [tpc EXCEPT ![t] = "bottom"]
  /\ UNCHANGED <<m_top, m_bottom, m_buf, m_garbage, heap, opc, ol, npushed, log>>

\* steal: bottom = m_bottom.load, top < bottom
StealLoadBottom(t) ==
  /\ tpc[t] = "bottom"
  /\ tl[t].top < m_bottom
  /\ tpc' = [tpc EXCEPT ![t] = "buf"]
  /\ UNCHANGED <<m_top, m_bottom, m_buf, m_garbage, heap, opc, ol, tl, npushed, log>>

\* steal: bottom = m_bottom.load, top >= bottom: err::empty
StealEmpty(t) ==
  /\ tpc[t] = "bottom"
  /\ ~(tl[t].top < m_bottom)
  /\ tl' = [tl EXCEPT ![t] = NoLocals]
  /\ tpc' = [tpc EXCEPT ![t] = "idle"]
  /\ UNCHANGED <<m_top, m_bottom, m_buf, m_garbage, heap, opc, ol, npushed, log>>

\* steal: m_buf.load(consume)
StealLoadBuf(t) ==
  /\ tpc[t] = "buf"
  /\ tl' = [tl EXCEPT ![t].buf = m_buf]
  /\ tpc' = [tpc EXCEPT ![t] = "slot"]
  /\ UNCHANGED <<m_top, m_bottom, m_buf, m_garbage, heap, opc, ol, npushed, log>>

\* steal: tmp = buf->load(top), from the buffer loaded before, retired or not
StealLoadSlot(t) ==
  /\ tpc[t] = "slot"
  /\ tl' = [tl EXCEPT ![t].val = load(heap[tl[t].buf], tl[t].top)]
  /\ tpc' = [tpc EXCEPT ![t] = "cas"]
  /\ UNCHANGED <<m_top, m_bottom, m_buf, m_garbage, heap, opc, ol, npushed, log>>

\* steal: m_top.compare_exchange_strong(top, top + 1) succeeds: err::none
StealCasWon(t) ==
  /\ tpc[t] = "cas"
  /\ m_top = tl[t].top
  /\ m_top' = tl[t].top + 1
  /\ log' = Returns("steal", tl[t].val)
  /\ tl' = [tl EXCEPT ![t] = NoLocals]
  /\ tpc' = [tpc EXCEPT ![t] = "idle"]
  /\ UNCHANGED <<m_bottom, m_buf, m_garbage, heap, opc, ol, npushed>>

\* steal: the compare-exchange fails: err::lost
StealCasLost(t) ==
  /\ tpc[t] = "cas"
  /\ m_top /= tl[t].top
  /\ tl' = [tl EXCEPT ![t] = NoLocals]
  /\ tpc' = [tpc EXCEPT ![t] = "idle"]
  /\ UNCHANGED <<m_top, m_bottom, m_buf, m_garbage, heap, opc, ol, npushed, log>>

OwnerStep ==
  \/ PushBegin
  \/ PushResize
  \/ PushStore
  \/ PushPublish
  \/ PopBegin
  \/ PopTake
  \/ PopLast
  \/ PopEmpty
  \/ PopCasWon
  \/ PopCasLost
  \/ PopRestore
  \/ PopRestoreWon

ThiefStep(t) ==
  \/ StealLoadTop(t)
  \/ StealLoadBottom(t)
  \/ StealEmpty(t)
  \/ StealLoadBuf(t)
  \/ StealLoadSlot(t)
  \/ StealCasWon(t)
  \/ StealCasLost(t)

NextDeque ==
  \/ OwnerStep
  \/ \E t \in Thieves : ThiefStep(t)

\* ========================================================================
\* Part 3: the intrusive submission list, one atomic access per step
\* ========================================================================
\*
\* NProducers threads push MaxNodes nodes between them, the owner calls
\* try_pop_all.  The nodes have the addresses 1, 2, ... in the order their
\* pushes begin; nullptr is Null.

NProducers == 2

MaxNodes == 3

Producers == 1..NProducers

Nodes == 1..MaxNodes

Null == 0

VARIABLES
  m_head,   \* intrusive_list::m_head
  m_next,   \* node |-> node::m_next
  ppc,      \* producer |-> where it is inside push
  pl,       \* producer |-> its locals: new_node, stale_head
  nnodes,   \* nodes handed to push so far
  lpc,      \* where the owner is inside try_pop_all
  ll,       \* the owner's locals: last, first
  effect,   \* the nodes in the order their pushes took effect
  drains    \* what the calls of try_pop_all returned, as for_each_elem walks it

liVars == <<m_head, m_next, ppc, pl, nnodes, lpc, ll, effect, drains>>

InitList ==
  /\ m_head = Null
  /\ m_next = [n \in Nodes |-> Null]
  /\ ppc = [p \in Producers |-> "idle"]
  /\ pl = [p \in Producers |-> [new_node |-> Null, stale_head |-> Null]]
  /\ nnodes = 0
  /\ lpc = "idle"
  /\ ll = [last |-> Null, first |-> Null]
  /\ effect = <<>>
  /\ drains = <<>>

\* for_each_elem: the nodes reached from root along m_next.
RECURSIVE Walk(_, _)
Walk(next, root) == IF root = Null THEN <<>> ELSE <<root>> \o Walk(next, next[root])

\* A faulty reversal that moves along the list and does not relink it.
RelinkNone(next, tmp, first) == next

\* try_pop_all: tmp->m_next = first
Relink(next, tmp, first) == [next EXCEPT ![tmp] = first]

\* push: stale_head = m_head.load, then new_node->m_next = stale_head (a
\* store to a node no other thread can reach yet).
PushLoad(p) ==
  /\ ppc[p] = "idle"
  /\ nnodes < MaxNodes
  /\ LET new_node == nnodes + 1
     IN /\ pl' = [pl EXCEPT ![p] = [new_node |-> new_node, stale_head |-> m_head]]
        /\ m_next' = [m_next EXCEPT ![new_node] = m_head]
  /\ nnodes' = nnodes + 1
  /\ ppc' = [ppc EXCEPT ![p] = "cas"]
  /\ UNCHANGED <<m_head, lpc, ll, effect, drains>>

\* push: m_head.compare_exchange_weak(stale_head, new_node) succeeds
PushCasOk(p) ==
  /\ ppc[p] = "cas"
  /\ m_head = pl[p].stale_head
  /\ m_head' = pl[p].new_node
  /\ effect' = Append(effect, pl[p].new_node)
  /\ pl' = [pl EXCEPT ![p] = [new_node |-> Null, stale_head |-> Null]]
  /\ ppc' = [ppc EXCEPT ![p] = "idle"]
  /\ UNCHANGED <<m_next, nnodes, lpc, ll, drains>>

\* push: the compare-exchange fails, because the head moved or spuriously
\* (it is the weak form); stale_head is reloaded, the loop goes round and
\* links the node again.
PushCasFail(p) ==
  /\ ppc[p] = "cas"
  /\ pl' = [pl EXCEPT ![p].stale_head = m_head]
  /\ m_next' = [m_next EXCEPT ![pl[p].new_node] = m_head]
  /\ UNCHANGED <<m_head, ppc, nnodes, lpc, ll, effect, drains>>

\* try_pop_all: last = m_head.exchange(nullptr), first = nullptr
PopExchange ==
  /\ lpc = "idle"
  /\ ll' = [last |-> m_head, first |-> Null]
  /\ m_head' = Null
  /\ lpc' = "reverse"
  /\ UNCHANGED <<m_next, ppc, pl, nnodes, effect, drains>>

\* try_pop_all: the reversing loop, over nodes only the owner can reach.
RECURSIVE ReverseLoop(_, _, _)
ReverseLoop(next, last, first) ==
  IF last = Null THEN [next |-> next, first |-> first]
  ELSE ReverseLoop(Relink(next, last, first), next[last], last)

PopReverse ==
  /\ lpc = "reverse"
  /\ LET r == ReverseLoop(m_next, ll.last, Null)
     IN /\ ll' = [last |-> Null, first |-> r.first]
        /\ m_next' = r.next
  /\ lpc' = "return"
  /\ UNCHANGED <<m_head, ppc, pl, nnodes, effect, drains>>

\* try_pop_all: return first
PopReturn ==
  /\ lpc = "return"
  /\ drains' = IF ll.first = Null THEN drains ELSE Append(drains, Walk(m_next, ll.first))
  /\ ll' = [last |-> Null, first |-> Null]
  /\ lpc' = "idle"
  /\ UNCHANGED <<m_head, m_next, ppc, pl, nnodes, effect>>

ProducerStep(p) ==
  \/ PushLoad(p)
  \/ PushCasOk(p)
  \/ PushCasFail(p)

NextList ==
  \/ \E p \in Producers : ProducerStep(p)
  \/ PopExchange
  \/ PopReverse
  \/ PopReturn

\* ========================================================================
\* Part 5: exceptions through fork / call / join
\* ========================================================================
\*
\* The program of this part is a root task R whose return address is the
\* shared state of a future; R forks M and joins.  M runs
\*
\*     try { co_await fork(A); co_await dispatch<tag, mod>(&b, B); }
\*     catch (exception_before_join const &) {}
\*     co_await join;
\*
\* where A and B are leaves that return or throw.  The tag and the modifier
\* of the second dispatch, and whether B's return address can stash an
\* exception, are chosen in the initial state.  Stacks are left out: Part 1
\* covers them.

\* Number of worker threads running the exception program.
ExcWorkers == 2

VARIABLES
  xcfg,       \* the dispatch of B: [tag, mod, stash]
  xframe,     \* frame |-> status, position, counters, exception flag and slot
  xdeque,     \* worker |-> deque of forked parents (top first, bottom last)
  xsubmit,    \* worker |-> submitted root handles
  xcur,       \* worker |-> frame it executes, or "none"
  xpc,        \* worker |-> where the worker is in the runtime's code
  xpar,       \* worker |-> parent it is about to touch (capture or join)
  xslot,      \* frame |-> what its return address holds
  xterm,      \* frame |-> how its body ended: "none", "ok" or the exception
  xcaps,      \* frame |-> exceptions constructed in its slot, in order
  xthrown,    \* frame |-> exceptions rethrown out of its slot, in order
  xsem,       \* the future's semaphore
  xmain,      \* the thread in sync_wait: "wait" or "done"
  xret,       \* what future::get gave the thread in sync_wait
  xviol       \* assertions of the code that failed

excVars == <<xcfg, xframe, xdeque, xsubmit, xcur, xpc, xpar, xslot, xterm,
             xcaps, xthrown, xsem, xmain, xret, xviol>>

XWorkers == 1..ExcWorkers

XFrames == {"R", "M", "A", "B"}

XParent(f) == CASE f = "M" -> "R" [] f = "A" -> "M" [] f = "B" -> "M"
                [] OTHER -> "none"

XChildren(f) == {c \in XFrames : XParent(c) = f}

\* The exception a leaf throws.
ExcOf(f) == IF f = "A" THEN "exA" ELSE "exB"

\* The dispatches M may use for B: modifier_for<Tag>, inside a scope.
XConfigs ==
  {[tag |-> "call", mod |-> m, stash |-> s] :
     m \in {"none", "eager_throw"}, s \in BOOLEAN} \cup
  {[tag |-> "fork", mod |-> m, stash |-> s] :
     m \in {"none", "sync"}, s \in BOOLEAN}

\* The awaits of a task's body, in order.
XBody(f) ==
  CASE f = "R" -> << [op |-> "fork", child |-> "M", mod |-> "none"],
                     [op |-> "join", child |-> "none", mod |-> "none"] >>
    [] f = "M" -> << [op |-> "fork", child |-> "A", mod |-> "none"],
                     [op |-> xcfg.tag, child |-> "B", mod |-> xcfg.mod],
                     [op |-> "join", child |-> "none", mod |-> "none"] >>
    [] OTHER -> << >>

XJoinIp(f) == Len(XBody(f))

\* stash_exception_in_return<I> of the task's return address: the future's
\* shared state of the root stashes, M and A write through plain pointers.
XStash(f) ==
  CASE f = "R" -> TRUE
    [] f = "B" -> xcfg.stash
    [] OTHER -> FALSE

XNoFrame ==
  [st |-> "unborn", ip |-> 1, ph |-> "exec", join |-> k_u16_max, steal |-> 0,
   except |-> FALSE, eptr |-> "none", pre |-> 0, exc |-> "none"]

XNewFrame == [XNoFrame EXCEPT !.st = "live"]

XDead(fr) == [fr EXCEPT !.st = "dead"]

\* The state after schedule(sch, R) put the root on worker d's submission
\* list, for the dispatch c of B.
StartExc(c, d) ==
  /\ xcfg = c
  /\ xframe = [f \in XFrames |-> IF f = "R" THEN XNewFrame ELSE XNoFrame]
  /\ xdeque = [w \in XWorkers |-> << >>]
  /\ xsubmit = [w \in XWorkers |-> IF w = d THEN << "R" >> ELSE << >>]
  /\ xcur = [w \in XWorkers |-> "none"]
  /\ xpc = [w \in XWorkers |-> "loop"]
  /\ xpar = [w \in XWorkers |-> "none"]
  /\ xslot = [f \in XFrames |-> "empty"]
  /\ xterm = [f \in XFrames |-> "none"]
  /\ xcaps = [f \in XFrames |-> << >>]
  /\ xthrown = [f \in XFrames |-> << >>]
  /\ xsem = 0
  /\ xmain = "wait"
  /\ xret = "none"
  /\ xviol = {}

InitExc == \E c \in XConfigs, d \in XWorkers : StartExc(c, d)

\* The one state the exception program rests in while another part runs.
RestExc == StartExc([tag |-> "call", mod |-> "none", stash |-> FALSE], 1)

\* --- the awaitable chosen for a dispatch ---------------------------------

await_transform(tag, mod, stash) ==
  LET throwing == stash
  IN  IF tag = "call"
      THEN IF throwing /\ mod = "eager_throw"
           THEN "eager_call_awaitable"
           ELSE "call_awaitable"
      ELSE IF mod = "none" THEN "fork_awaitable"
           ELSE IF throwing THEN "sync_fork_awaitable_throws"
           ELSE "sync_fork_awaitable"

\* unsafe_rethrow_if_exception, as the outcome of an await_resume.
RethrowIf(fr) == IF fr.except THEN "rethrow" ELSE "continue"

\* atomic_has_exception followed by LF_THROW(exception_before_join{}).
SubstituteIf(fr) == IF fr.except THEN "ebj" ELSE "continue"

\* What the await_resume of awaitable aw does on frame fr.
AwaitResume(aw, fr) ==
  CASE aw = "join_awaitable" -> RethrowIf(fr)
    [] aw = "eager_call_awaitable" ->
         IF fr.steal = 0 THEN RethrowIf(fr) ELSE SubstituteIf(fr)
    [] aw = "sync_fork_awaitable_throws" ->
         IF fr.steal = fr.pre
         THEN IF fr.steal = 0 THEN RethrowIf(fr) ELSE SubstituteIf(fr)
         ELSE "continue"
    [] OTHER -> "continue"

\* frame::rethrow with a rethrow that forgets to clear flag and slot.
RethrowKeeps(fr) == [fr EXCEPT !.ph = "throw", !.exc = fr.eptr]

\* frame::rethrow: the exception leaves the slot, the slot is destroyed and
\* the flag cleared.
rethrow(fr) ==
  [fr EXCEPT !.ph = "throw", !.exc = fr.eptr, !.eptr = "none",
             !.except = FALSE]

\* capture_exception that constructs the slot at every capture.
FirstCaptureAlways(prev) == TRUE

\* capture_exception that never constructs the slot.
FirstCaptureNever(prev) == FALSE

\* capture_exception: only the first capture constructs the slot.
FirstCapture(prev) == ~prev

\* --- the worker loop -------------------------------------------------------

XRunning(w) == xpc[w] = "run" /\ xcur[w] \in XFrames

XAt(w, ph) == XRunning(w) /\ xframe[xcur[w]].ph = ph

XOp(f) == XBody(f)[xframe[f].ip]

XHasOp(f) == xframe[f].ip <= Len(XBody(f))

XGhosts == <<xslot, xterm, xcaps, xthrown, xviol>>

XMainVars == <<xsem, xmain, xret>>

\* try_pop_all and resume(submit_handle).
XResumeSubmitted(w) ==
  /\ xpc[w] = "loop"
  /\ xsubmit[w] /= << >>
  /\ xcur' = [xcur EXCEPT ![w] = Head(xsubmit[w])]
  /\ xsubmit' = [xsubmit EXCEPT ![w] = Tail(xsubmit[w])]
  /\ xpc' = [xpc EXCEPT ![w] = "run"]
  /\ UNCHANGED <<xcfg, xframe, xdeque, xpar, XGhosts, XMainVars>>

\* try_steal and resume(task_handle): the thief counts the steal.
XSteal(w, v) ==
  /\ xpc[w] = "loop"
  /\ v /= w
  /\ xdeque[v] /= << >>
  /\ LET f == Head(xdeque[v]) IN
       /\ xdeque' = [xdeque EXCEPT ![v] = Tail(xdeque[v])]
       /\ xframe' = [xframe EXCEPT ![f].steal = U16(xframe[f].steal + 1),
                                   ![f].ph = "resume"]
       /\ xcur' = [xcur EXCEPT ![w] = f]
  /\ xpc' = [xpc EXCEPT ![w] = "run"]
  /\ UNCHANGED <<xcfg, xsubmit, xpar, XGhosts, XMainVars>>

\* fork_awaitable::await_suspend: push the parent, run the child.
XFork(w) ==
  /\ XAt(w, "exec")
  /\ LET f == xcur[w] IN
       /\ XHasOp(f)
       /\ XOp(f).op = "fork"
       /\ xframe' = [xframe EXCEPT ![f].ph = "susp",
                                   ![f].pre = xframe[f].steal,
                                   ![XOp(f).child] = XNewFrame]
       /\ xdeque' = [xdeque EXCEPT ![w] = Append(xdeque[w], f)]
       /\ xcur' = [xcur EXCEPT ![w] = XOp(f).child]
  /\ UNCHANGED <<xcfg, xsubmit, xpc, xpar, XGhosts, XMainVars>>

\* call_awaitable::await_suspend: run the child, the parent is not pushed.
XCall(w) ==
  /\ XAt(w, "exec")
  /\ LET f == xcur[w] IN
       /\ XHasOp(f)
       /\ XOp(f).op = "call"
       /\ xframe' = [xframe EXCEPT ![f].ph = "susp",
                                   ![XOp(f).child] = XNewFrame]
       /\ xcur' = [xcur EXCEPT ![w] = XOp(f).child]
  /\ UNCHANGED <<xcfg, xdeque, xsubmit, xpc, xpar, XGhosts, XMainVars>>

\* The awaitable the frame is being resumed from.
XAwaitable(f) ==
  IF XOp(f).op = "join" THEN "join_awaitable"
  ELSE await_transform(XOp(f).op, XOp(f).mod, XStash(XOp(f).child))

\* await_resume of the fork, call or join the frame was suspended at.
XAwaitResumes(w) ==
  /\ XAt(w, "resume")
  /\ LET f == xcur[w]
         fr == xframe[f]
         out == AwaitResume(XAwaitable(f), fr)
     IN
       /\ CASE out = "rethrow" ->
                 /\ xframe' = [xframe EXCEPT ![f] = rethrow(fr)]
                 /\ xthrown' = [xthrown EXCEPT ![f] = Append(@, fr.eptr)]
                 /\ xviol' = IF fr.eptr = "none"
                             THEN xviol \cup {"rethrow of an empty slot"}
                             ELSE xviol
            [] out = "ebj" ->
                 /\ xframe' = [xframe EXCEPT ![f].ph = "throw",
                                             ![f].exc = "ebj"]
                 /\ UNCHANGED <<xthrown, xviol>>
            [] OTHER ->
                 /\ xframe' = [xframe EXCEPT ![f].ph = "exec",
                                             ![f].ip = fr.ip + 1]
                 /\ UNCHANGED <<xthrown, xviol>>
  /\ UNCHANGED <<xcfg, xdeque, xsubmit, xcur, xpc, xpar, xslot, xterm, xcaps,
                 XMainVars>>

\* catch (exception_before_join const &) {} around the two dispatches.
XCatch(w) ==
  /\ XAt(w, "throw")
  /\ LET f == xcur[w] IN
       /\ xframe[f].exc = "ebj"
       /\ xframe[f].ip < XJoinIp(f)
       /\ xframe' = [xframe EXCEPT ![f].ph = "exec", ![f].exc = "none",
                                   ![f].ip = XJoinIp(f)]
  /\ UNCHANGED <<xcfg, xdeque, xsubmit, xcur, xpc, xpar, XGhosts, XMainVars>>

\* join_awaitable::await_ready.
XJoinAwaitReady(w) ==
  /\ XAt(w, "exec")
  /\ LET f == xcur[w]
         fr == xframe[f]
     IN
       /\ XHasOp(f)
       /\ XOp(f).op = "join"
       /\ IF fr.steal = 0
          THEN /\ xframe' = [xframe EXCEPT ![f].ph = "resume"]
               /\ UNCHANGED xpc
          ELSE IF JoinReady(fr.steal, fr.join)
          THEN /\ xframe' = [xframe EXCEPT ![f] = [reset(fr) EXCEPT
                                                     !.ph = "resume"]]
               /\ UNCHANGED xpc
          ELSE /\ xframe' = [xframe EXCEPT ![f].ph = "susp"]
               /\ xpc' = [xpc EXCEPT ![w] = "join_suspend"]
  /\ UNCHANGED <<xcfg, xdeque, xsubmit, xcur, xpar, XGhosts, XMainVars>>

\* join_awaitable::await_suspend: publish the join with one fetch_sub.
XJoinAwaitSuspend(w) ==
  /\ xpc[w] = "join_suspend"
  /\ LET f == xcur[w]
         fr == xframe[f]
         joined == k_u16_max - fr.steal
     IN
       IF JoinWon(fr.steal, k_u16_max - fr.join)
       THEN /\ xframe' = [xframe EXCEPT ![f] = [reset(fr) EXCEPT
                                                  !.ph = "resume"]]
            /\ xpc' = [xpc EXCEPT ![w] = "run"]
            /\ UNCHANGED xcur
       ELSE /\ xframe' = [xframe EXCEPT ![f].join = U16(fr.join - joined)]
            /\ xpc' = [xpc EXCEPT ![w] = "loop"]
            /\ xcur' = [xcur EXCEPT ![w] = "none"]
  /\ UNCHANGED <<xcfg, xdeque, xsubmit, xpar, XGhosts, XMainVars>>

\* A leaf throws out of its body.
XLeafThrows(w) ==
  /\ XAt(w, "exec")
  /\ LET f == xcur[w] IN
       /\ XBody(f) = << >>
       /\ xframe' = [xframe EXCEPT ![f].ph = "throw", ![f].exc = ExcOf(f)]
  /\ UNCHANGED <<xcfg, xdeque, xsubmit, xcur, xpc, xpar, XGhosts, XMainVars>>

\* co_return: return_value / return_void through the return address.
XReturns(w) ==
  /\ XAt(w, "exec")
  /\ LET f == xcur[w] IN
       /\ ~XHasOp(f)
       /\ xframe' = [xframe EXCEPT ![f].ph = "final"]
       /\ xterm' = [xterm EXCEPT ![f] = "ok"]
       /\ xslot' = [xslot EXCEPT ![f] = "value"]
  /\ UNCHANGED <<xcfg, xdeque, xsubmit, xcur, xpc, xpar, xcaps, xthrown,
                 xviol, XMainVars>>

\* promise::unhandled_exception: stash in the return address, or set the
\* parent's flag (the exchange of capture_exception).
XUnhandledException(w) ==
  /\ XAt(w, "throw")
  /\ LET f == xcur[w]
         fr == xframe[f]
         p == XParent(f)
     IN
       /\ ~(fr.exc = "ebj" /\ fr.ip < XJoinIp(f))
       /\ xterm' = [xterm EXCEPT ![f] = fr.exc]
       /\ IF XStash(f)
          THEN /\ xslot' = [xslot EXCEPT ![f] = fr.exc]
               /\ xframe' = [xframe EXCEPT ![f].ph = "final"]
               /\ UNCHANGED <<xpc, xpar>>
          ELSE /\ UNCHANGED xslot
               /\ IF FirstCapture(xframe[p].except)
                  THEN /\ xframe' = [xframe EXCEPT ![p].except = TRUE]
                       /\ xpc' = [xpc EXCEPT ![w] = "construct"]
                       /\ xpar' = [xpar EXCEPT ![w] = p]
                  ELSE /\ xframe' = [xframe EXCEPT ![p].except = TRUE,
                                                   ![f].ph = "final"]
                       /\ UNCHANGED <<xpc, xpar>>
  /\ UNCHANGED <<xcfg, xdeque, xsubmit, xcur, xcaps, xthrown, xviol,
                 XMainVars>>

\* capture_exception, second half: m_eptr.construct(current_exception()).
XConstruct(w) ==
  /\ xpc[w] = "construct"
  /\ LET f == xcur[w]
         p == xpar[w]
     IN
       /\ xframe' = [xframe EXCEPT ![p].eptr = xframe[f].exc,
                                   ![f].ph = "final"]
       /\ xcaps' = [xcaps EXCEPT ![p] = Append(@, xframe[f].exc)]
       /\ xviol' = IF xframe[p].eptr /= "none"
                   THEN xviol \cup {"slot constructed twice"}
                   ELSE xviol
  /\ xpc' = [xpc EXCEPT ![w] = "run"]
  /\ xpar' = [xpar EXCEPT ![w] = "none"]
  /\ UNCHANGED <<xcfg, xdeque, xsubmit, xcur, xslot, xterm, xthrown,
                 XMainVars>>

\* The assertions of final_suspend.
FinalSuspendAsserts(fr) ==
  (IF fr.steal = 0 THEN {} ELSE {"final_suspend: steals"}) \cup
  (IF fr.join = k_u16_max THEN {} ELSE {"final_suspend: joins"}) \cup
  (IF fr.except THEN {"final_suspend: exception"} ELSE {})

\* final_await_suspend of the root: signal the future.
XFinishRoot(w) ==
  /\ XAt(w, "final")
  /\ LET f == xcur[w] IN
       /\ XParent(f) = "none"
       /\ xviol' = xviol \cup FinalSuspendAsserts(xframe[f])
       /\ xframe' = [xframe EXCEPT ![f] = XDead(@)]
  /\ xsem' = 1
  /\ xcur' = [xcur EXCEPT ![w] = "none"]
  /\ xpc' = [xpc EXCEPT ![w] = "loop"]
  /\ UNCHANGED <<xcfg, xdeque, xsubmit, xpar, xslot, xterm, xcaps, xthrown,
                 xmain, xret>>

\* Was frame f started by a fork or by a call of its parent ?
XTagOf(f) ==
  LET body == XBody(XParent(f))
  IN  body[CHOOSE i \in 1..Len(body) : body[i].child = f].op

\* final_await_suspend of a called child: continue the parent.
XFinishCall(w) ==
  /\ XAt(w, "final")
  /\ LET f == xcur[w]
         p == XParent(f)
     IN
       /\ p /= "none"
       /\ XTagOf(f) = "call"
       /\ xviol' = xviol \cup FinalSuspendAsserts(xframe[f])
       /\ xframe' = [xframe EXCEPT ![f] = XDead(@), ![p].ph = "resume"]
       /\ xcur' = [xcur EXCEPT ![w] = p]
  /\ UNCHANGED <<xcfg, xdeque, xsubmit, xpc, xpar, xslot, xterm, xcaps,
                 xthrown, XMainVars>>

\* final_await_suspend of a forked child that pops its parent.
XFinishForkPopped(w) ==
  /\ XAt(w, "final")
  /\ LET f == xcur[w]
         p == XParent(f)
     IN
       /\ p /= "none"
       /\ XTagOf(f) = "fork"
       /\ xdeque[w] /= << >>
       /\ xviol' = xviol \cup FinalSuspendAsserts(xframe[f])
       /\ xframe' = [xframe EXCEPT ![f] = XDead(@), ![p].ph = "resume"]
       /\ xdeque' = [xdeque EXCEPT ![w] = Front(xdeque[w])]
       /\ xcur' = [xcur EXCEPT ![w] = Last(xdeque[w])]
  /\ UNCHANGED <<xcfg, xsubmit, xpc, xpar, xslot, xterm, xcaps, xthrown,
                 XMainVars>>

\* final_await_suspend of a forked child whose parent was stolen.
XFinishForkStolen(w) ==
  /\ XAt(w, "final")
  /\ LET f == xcur[w]
         p == XParent(f)
     IN
       /\ p /= "none"
       /\ XTagOf(f) = "fork"
       /\ xdeque[w] = << >>
       /\ xviol' = xviol \cup FinalSuspendAsserts(xframe[f])
       /\ xframe' = [xframe EXCEPT ![f] = XDead(@)]
       /\ xpar' = [xpar EXCEPT ![w] = p]
  /\ xcur' = [xcur EXCEPT ![w] = "none"]
  /\ xpc' = [xpc EXCEPT ![w] = "decr"]
  /\ UNCHANGED <<xcfg, xdeque, xsubmit, xslot, xterm, xcaps, xthrown,
                 XMainVars>>

\* parent->fetch_sub_joins(1) == 1: the last child resumes the parent.
XChildJoinsLast(w) ==
  /\ xpc[w] = "decr"
  /\ LET p == xpar[w] IN
       /\ LastChild(xframe[p].join)
       /\ xframe' = [xframe EXCEPT ![p] = [reset(@) EXCEPT !.ph = "resume"]]
       /\ xcur' = [xcur EXCEPT ![w] = p]
  /\ xpc' = [xpc EXCEPT ![w] = "run"]
  /\ xpar' = [xpar EXCEPT ![w] = "none"]
  /\ UNCHANGED <<xcfg, xdeque, xsubmit, XGhosts, XMainVars>>

\* parent->fetch_sub_joins(1) /= 1: the child's worker goes back to stealing.
XChildJoinsEarly(w) ==
  /\ xpc[w] = "decr"
  /\ LET p == xpar[w] IN
       /\ ~LastChild(xframe[p].join)
       /\ xframe' = [xframe EXCEPT ![p].join = U16(@ - 1)]
  /\ xpc' = [xpc EXCEPT ![w] = "loop"]
  /\ xpar' = [xpar EXCEPT ![w] = "none"]
  /\ UNCHANGED <<xcfg, xdeque, xsubmit, xcur, XGhosts, XMainVars>>

\* future::get in sync_wait: wait for the semaphore, then take the value or
\* rethrow the stashed exception.
XGet ==
  /\ xmain = "wait"
  /\ xsem = 1
  /\ xmain' = "done"
  /\ xret' = xslot["R"]
  /\ UNCHANGED <<xcfg, xframe, xdeque, xsubmit, xcur, xpc, xpar, XGhosts,
                 xsem>>

XWorkerStep(w) ==
  \/ XResumeSubmitted(w)
  \/ \E v \in XWorkers : XSteal(w, v)
  \/ XFork(w)
  \/ XCall(w)
  \/ XAwaitResumes(w)
  \/ XCatch(w)
  \/ XJoinAwaitReady(w)
  \/ XJoinAwaitSuspend(w)
  \/ XLeafThrows(w)
  \/ XReturns(w)
  \/ XUnhandledException(w)
  \/ XConstruct(w)
  \/ XFinishRoot(w)
  \/ XFinishCall(w)
  \/ XFinishForkPopped(w)
  \/ XFinishForkStolen(w)
  \/ XChildJoinsLast(w)
  \/ XChildJoinsEarly(w)

NextExc ==
  \/ \E w \in XWorkers : XWorkerStep(w)
  \/ XGet

\* ========================================================================
\* Part 6: the worker loops of the pools, sleeping and shutdown
\* ========================================================================
\*
\* A thread outside the pool schedules roots on workers of its choice and,
\* in the specification with shutdown, destroys the pool.  A root either
\* returns at once or forks one child and joins; a thief may steal the
\* forked parent.  The workers run lazy_work (sleeping through the event
\* counts of their NUMA domains) or busy_work.

\* Number of worker threads of the pool.
PoolWorkers == 2

\* Number of roots the outside thread schedules.
NRoots == 1

\* Largest number of NUMA domains the workers are distributed over.
MaxDomains == 2

VARIABLES
  pkind,      \* "lazy" or "busy"
  nd,         \* number of NUMA domains
  wkpc,        \* worker |-> its position in lazy_work / busy_work
  lsub,       \* worker |-> its submission list
  lpend,      \* worker |-> submitted roots it drained and has still to resume
  ljob,       \* worker |-> the piece of a task it holds or runs
  ldq,        \* worker |-> its deque of forked parents
  lscan,      \* worker |-> domain index of its loop over numa
  lkey,       \* worker |-> key given by prepare_wait
  ltoken,     \* worker |-> a notify reached it while blocked in wait
  lwake,      \* thread |-> the domain whose blocked threads it has still to
              \*            wake, after it added one to the epoch
  active,     \* lazy_vars::active
  thief,      \* domain |-> fat_counters::thief
  epoch,      \* domain |-> epoch half of notifier.m_val
  waiters,    \* domain |-> waiter half of notifier.m_val
  stop,       \* busy_vars::stop
  latched,    \* how many workers have arrived at latch_stop
  rstate,     \* root |-> "new", "pushed", "started" or "done"
  arrived,    \* root |-> how many of (thief at the join, child) have arrived
  late,       \* root |-> it was pushed between its worker's re-check and
              \*          that worker's test of stop
  mpc,        \* the outside thread's position
  mnext,      \* the next root it schedules
  mtarget,    \* the worker it is scheduling on
  mscan       \* domain index of the destructor's loop over numa

poolVars == <<pkind, nd, wkpc, lsub, lpend, ljob, ldq, lscan, lkey, ltoken, lwake,
              active, thief, epoch, waiters, stop, latched, rstate, arrived,
              late, mpc, mnext, mtarget, mscan>>

PWorkers == 1..PoolWorkers

Roots == 1..NRoots

Domains == 1..nd

\* numa_topology::distribute: the domain of each worker.
DomainOf(w) == ((w - 1) % nd) + 1

WorkersOf(d) == {w \in PWorkers : DomainOf(w) = d}

NoJob == [r |-> 0, part |-> "none"]

\* The threads that call the notifiers: the workers and, as 0, the thread
\* outside the pool.
Callers == 0..PoolWorkers

NoWake == [d |-> 0, all |-> FALSE]

\* The pool of kind k on n domains, right after its constructor.
StartPool(k, n) ==
  /\ pkind = k
  /\ nd = n
  /\ wkpc = [w \in PWorkers |-> IF k = "lazy" THEN "wake_up" ELSE "b_test"]
  /\ lsub = [w \in PWorkers |-> << >>]
  /\ lpend = [w \in PWorkers |-> << >>]
  /\ ljob = [w \in PWorkers |-> NoJob]
  /\ ldq = [w \in PWorkers |-> << >>]
  /\ lscan = [w \in PWorkers |-> 0]
  /\ lkey = [w \in PWorkers |-> 0]
  /\ ltoken = [w \in PWorkers |-> FALSE]
  /\ lwake = [c \in Callers |-> NoWake]
  /\ active = 0
  /\ thief = [d \in 1..MaxDomains |-> 0]
  /\ epoch = [d \in 1..MaxDomains |-> 0]
  /\ waiters = [d \in 1..MaxDomains |-> 0]
  /\ stop = FALSE
  /\ latched = 0
  /\ rstate = [r \in Roots |-> "new"]
  /\ arrived = [r \in Roots |-> 0]
  /\ late = [r \in Roots |-> FALSE]
  /\ mpc = "idle"
  /\ mnext = 1
  /\ mtarget = 0
  /\ mscan = 0

InitLazy == \E n \in 1..MaxDomains : n <= PoolWorkers /\ StartPool("lazy", n)

InitPools ==
  \E k \in {"lazy", "busy"}, n \in 1..MaxDomains :
    /\ n <= PoolWorkers
    /\ k = "busy" => n = 1
    /\ StartPool(k, n)

\* The one state the pool rests in while another part of the model runs.
RestPool == StartPool("lazy", 1)

\* --- event_count -----------------------------------------------------------

Blocked(d) == {w \in WorkersOf(d) : wkpc[w] = "blocked"}

\* event_count::notify_one on domain d by thread c: add one to the epoch
\* and, if the waiter count was not zero, go on to epoch()->notify_one().
notify_one(c, d) ==
  /\ epoch' = [epoch EXCEPT ![d] = @ + 1]
  /\ lwake' = [lwake EXCEPT ![c] = IF waiters[d] /= 0
                                   THEN [d |-> d, all |-> FALSE]
                                   ELSE NoWake]

\* A notify_all that changes nothing.
NotifyAllLost(c, d) == UNCHANGED <<epoch, lwake>>

\* event_count::notify_all on domain d by thread c.
notify_all(c, d) ==
  /\ epoch' = [epoch EXCEPT ![d] = @ + 1]
  /\ lwake' = [lwake EXCEPT ![c] = IF waiters[d] /= 0
                                   THEN [d |-> d, all |-> TRUE]
                                   ELSE NoWake]

\* event_count::prepare_wait by worker w.
prepare_wait(w) ==
  /\ waiters' = [waiters EXCEPT ![DomainOf(w)] = @ + 1]
  /\ lkey' = [lkey EXCEPT ![w] = epoch[DomainOf(w)]]

\* event_count::cancel_wait, and the tail of event_count::wait.
cancel_wait(w) == waiters' = [waiters EXCEPT ![DomainOf(w)] = @ - 1]

\* The threads of domain d blocked in the atomic wait and not yet woken.
Wakeable(d) == {w \in Blocked(d) : ~ltoken[w]}

PTaskVars == <<lsub, lpend, ljob, ldq, rstate, arrived, late>>

PMainVars == <<mpc, mnext, mtarget, mscan>>

PEventVars == <<lkey, ltoken, lwake, epoch, waiters>>

PFixed == <<pkind, nd, latched>>

\* The variables no step of a worker's loop changes.
PSetUp == <<pkind, nd>>

Goto(w, pc) == wkpc' = [wkpc EXCEPT ![w] = pc]

\* The second half of notify_one / notify_all by thread c: epoch()->notify_one()
\* wakes one of the blocked threads, epoch()->notify_all() wakes them all.
FutexWake(c) ==
  /\ lwake[c] /= NoWake
  /\ LET d == lwake[c].d IN
       IF lwake[c].all
       THEN ltoken' = [w \in PWorkers |-> ltoken[w] \/ w \in Blocked(d)]
       ELSE IF Wakeable(d) = {}
       THEN UNCHANGED ltoken
       ELSE \E v \in Wakeable(d) : ltoken' = [ltoken EXCEPT ![v] = TRUE]
  /\ lwake' = [lwake EXCEPT ![c] = NoWake]
  /\ UNCHANGED <<PFixed, PTaskVars, wkpc, lscan, lkey, epoch, waiters,
                 active, thief, stop, PMainVars>>

\* --- what resume(handle) runs ----------------------------------------------

ResumePcs == {"resume", "b_resume", "b_drain_resume"}

\* Where the worker loop goes on when resume returns.
AfterResumePc(pc) ==
  CASE pc = "resume" -> "tws_dec_active"
    [] pc = "b_resume" -> "b_test"
    [] OTHER -> "b_drain"

InResume(w) == wkpc[w] \in ResumePcs /\ lwake[w] = NoWake

\* resume(submit_handle): the next root of the drained list starts.
RootStarts(w) ==
  /\ InResume(w)
  /\ ljob[w] = NoJob
  /\ lpend[w] /= << >>
  /\ ljob' = [ljob EXCEPT ![w] = [r |-> Head(lpend[w]), part |-> "root"]]
  /\ lpend' = [lpend EXCEPT ![w] = Tail(@)]
  /\ rstate' = [rstate EXCEPT ![Head(lpend[w])] = "started"]
  /\ UNCHANGED <<PFixed, wkpc, lsub, ldq, lscan, PEventVars, active, thief,
                 stop, arrived, late, PMainVars>>

\* The root returns without forking: final suspension.
RootReturns(w) ==
  /\ InResume(w)
  /\ ljob[w].part \in {"root", "tail"}
  /\ rstate' = [rstate EXCEPT ![ljob[w].r] = "done"]
  /\ ljob' = [ljob EXCEPT ![w] = NoJob]
  /\ UNCHANGED <<PFixed, wkpc, lsub, lpend, ldq, lscan, PEventVars, active,
                 thief, stop, arrived, late, PMainVars>>

\* The root forks: its continuation goes on the worker's deque and the
\* worker runs the child.
RootForks(w) ==
  /\ InResume(w)
  /\ ljob[w].part = "root"
  /\ ldq' = [ldq EXCEPT ![w] = Append(@, ljob[w].r)]
  /\ ljob' = [ljob EXCEPT ![w].part = "child"]
  /\ UNCHANGED <<PFixed, wkpc, lsub, lpend, lscan, PEventVars, active, thief,
                 stop, rstate, arrived, late, PMainVars>>

\* The child reaches final suspension: it pops its parent, or, the parent
\* having been stolen, it is the first or the second to arrive at the join.
ChildReturns(w) ==
  /\ InResume(w)
  /\ ljob[w].part = "child"
  /\ LET r == ljob[w].r IN
       IF ldq[w] /= << >>
       THEN /\ ldq' = [ldq EXCEPT ![w] = Front(@)]
            /\ ljob' = [ljob EXCEPT ![w].part = "tail"]
            /\ UNCHANGED arrived
       ELSE /\ arrived' = [arrived EXCEPT ![r] = @ + 1]
            /\ ljob' = [ljob EXCEPT ![w] = IF arrived[r] = 1
                                           THEN [r |-> r, part |-> "tail"]
                                           ELSE NoJob]
            /\ UNCHANGED ldq
  /\ UNCHANGED <<PFixed, wkpc, lsub, lpend, lscan, PEventVars, active, thief,
                 stop, rstate, late, PMainVars>>

\* The stolen parent reaches its join: first or second to arrive.
ThiefJoins(w) ==
  /\ InResume(w)
  /\ ljob[w].part = "stolen"
  /\ LET r == ljob[w].r IN
       /\ arrived' = [arrived EXCEPT ![r] = @ + 1]
       /\ ljob' = [ljob EXCEPT ![w] = IF arrived[r] = 1
                                      THEN [r |-> r, part |-> "tail"]
                                      ELSE NoJob]
  /\ UNCHANGED <<PFixed, wkpc, lsub, lpend, ldq, lscan, PEventVars, active,
                 thief, stop, rstate, late, PMainVars>>

\* resume returns to the worker loop.
ResumeReturns(w) ==
  /\ InResume(w)
  /\ ljob[w] = NoJob
  /\ lpend[w] = << >>
  /\ Goto(w, AfterResumePc(wkpc[w]))
  /\ UNCHANGED <<PFixed, PTaskVars, lscan, PEventVars, active, thief, stop,
                 PMainVars>>

TaskStep(w) ==
  \/ RootStarts(w)
  \/ RootReturns(w)
  \/ RootForks(w)
  \/ ChildReturns(w)
  \/ ThiefJoins(w)
  \/ ResumeReturns(w)

\* --- try_pop_all and try_steal ----------------------------------------------

\* try_pop_all of worker w goes to pc got with the list, or to pc none.
PopAll(w, got, none) ==
  IF lsub[w] /= << >>
  THEN /\ lpend' = [lpend EXCEPT ![w] = lsub[w]]
       /\ lsub' = [lsub EXCEPT ![w] = << >>]
       /\ Goto(w, got)
  ELSE /\ UNCHANGED <<lpend, lsub>>
       /\ Goto(w, none)

\* try_steal of worker w: a parent from the top of some other deque goes to
\* pc got, or nothing was found and the worker goes to pc none.
TrySteal(w, got, none) ==
  \/ \E v \in PWorkers \ {w} :
       /\ ldq[v] /= << >>
       /\ ldq' = [ldq EXCEPT ![v] = Tail(@)]
       /\ ljob' = [ljob EXCEPT ![w] = [r |-> Head(ldq[v]), part |-> "stolen"]]
       /\ Goto(w, got)
  \/ /\ UNCHANGED <<ldq, ljob>>
     /\ Goto(w, none)

\* --- lazy_work -------------------------------------------------------------

IsLazy(w, pc) == pkind = "lazy" /\ wkpc[w] = pc /\ lwake[w] = NoWake

\* wake_up: thief.fetch_add(1).
WakeUp(w) ==
  /\ IsLazy(w, "wake_up")
  /\ thief' = [thief EXCEPT ![DomainOf(w)] = @ + 1]
  /\ Goto(w, "pop")
  /\ UNCHANGED <<PFixed, PTaskVars, lscan, PEventVars, active, stop,
                 PMainVars>>

\* The fast path: try_pop_all.
FastPop(w) ==
  /\ IsLazy(w, "pop")
  /\ PopAll(w, "tws_dec", "steal")
  /\ UNCHANGED <<PFixed, ljob, ldq, rstate, arrived, late, lscan, PEventVars,
                 active, thief, stop, PMainVars>>

\* The fast path: try_steal.
FastSteal(w) ==
  /\ IsLazy(w, "steal")
  /\ TrySteal(w, "tws_dec", "prepare")
  /\ UNCHANGED <<PFixed, lsub, lpend, rstate, arrived, late, lscan,
                 PEventVars, active, thief, stop, PMainVars>>

\* thief_work_sleep: thief.fetch_sub(1), the last thief owes a notify_one.
TwsThiefSub(w) ==
  /\ IsLazy(w, "tws_dec")
  /\ thief' = [thief EXCEPT ![DomainOf(w)] = @ - 1]
  /\ Goto(w, IF thief[DomainOf(w)] = 1 THEN "tws_notify" ELSE "tws_inc")
  /\ UNCHANGED <<PFixed, PTaskVars, lscan, PEventVars, active, stop,
                 PMainVars>>

\* thief_work_sleep: numa[tid].notifier.notify_one().
TwsNotify(w) ==
  /\ IsLazy(w, "tws_notify")
  /\ notify_one(w, DomainOf(w))
  /\ Goto(w, "tws_inc")
  /\ UNCHANGED <<PFixed, PTaskVars, lscan, lkey, ltoken, waiters, active,
                 thief, stop, PMainVars>>

\* A worker that never takes itself for the first active one.
FirstActiveNever(old) == FALSE

\* thief_work_sleep: active.fetch_add(1, acq_rel) == 0.
FirstActive(old) == old = 0

\* thief_work_sleep: active.fetch_add(1), the first active scans the domains.
TwsActiveAdd(w) ==
  /\ IsLazy(w, "tws_inc")
  /\ active' = active + 1
  /\ IF FirstActive(active)
     THEN Goto(w, "tws_scan") /\ lscan' = [lscan EXCEPT ![w] = 1]
     ELSE Goto(w, "resume") /\ UNCHANGED lscan
  /\ UNCHANGED <<PFixed, PTaskVars, PEventVars, thief, stop, PMainVars>>

\* thief_work_sleep: one round of the loop over numa.
TwsScan(w) ==
  /\ IsLazy(w, "tws_scan")
  /\ IF thief[lscan[w]] = 0
     THEN notify_one(w, lscan[w])
     ELSE UNCHANGED <<epoch, lwake>>
  /\ IF lscan[w] = nd
     THEN Goto(w, "resume") /\ lscan' = [lscan EXCEPT ![w] = 0]
     ELSE UNCHANGED wkpc /\ lscan' = [lscan EXCEPT ![w] = @ + 1]
  /\ UNCHANGED <<PFixed, PTaskVars, lkey, ltoken, waiters, active, thief,
                 stop, PMainVars>>

\* thief_work_sleep: active.fetch_sub(1), then goto wake_up.
TwsActiveSub(w) ==
  /\ IsLazy(w, "tws_dec_active")
  /\ active' = active - 1
  /\ Goto(w, "wake_up")
  /\ UNCHANGED <<PFixed, PTaskVars, lscan, PEventVars, thief, stop,
                 PMainVars>>

\* key = notifier.prepare_wait().
PrepareWait(w) ==
  /\ IsLazy(w, "prepare")
  /\ prepare_wait(w)
  /\ Goto(w, "recheck")
  /\ UNCHANGED <<PFixed, PTaskVars, lscan, ltoken, lwake, epoch, active,
                 thief, stop, PMainVars>>

\* The re-check of the submission list after prepare_wait.
Recheck(w) ==
  /\ IsLazy(w, "recheck")
  /\ PopAll(w, "cancel_pop", "stop_check")
  /\ UNCHANGED <<PFixed, ljob, ldq, rstate, arrived, late, lscan, PEventVars,
                 active, thief, stop, PMainVars>>

\* cancel_wait on the three paths that give up sleeping.
CancelWait(w) ==
  /\ pkind = "lazy"
  /\ lwake[w] = NoWake
  /\ wkpc[w] \in {"cancel_pop", "cancel_self", "exit_cancel"}
  /\ cancel_wait(w)
  /\ Goto(w, CASE wkpc[w] = "cancel_pop" -> "tws_dec"
               [] wkpc[w] = "cancel_self" -> "wake_up"
               [] OTHER -> "exit_notify")
  /\ UNCHANGED <<PFixed, PTaskVars, lscan, lkey, ltoken, lwake, epoch,
                 active, thief, stop, PMainVars>>

\* stop.test(acquire).
StopCheck(w) ==
  /\ IsLazy(w, "stop_check")
  /\ Goto(w, IF stop THEN "exit_cancel" ELSE "sleep_dec")
  /\ UNCHANGED <<PFixed, PTaskVars, lscan, PEventVars, active, thief, stop,
                 PMainVars>>

\* The stop path: notify_all on the worker's own notifier.
ExitNotify(w) ==
  /\ IsLazy(w, "exit_notify")
  /\ notify_all(w, DomainOf(w))
  /\ Goto(w, "exit_dec")
  /\ UNCHANGED <<PFixed, PTaskVars, lscan, lkey, ltoken, waiters, active,
                 thief, stop, PMainVars>>

\* The stop path: thief.fetch_sub(1) and return.
ExitReturn(w) ==
  /\ IsLazy(w, "exit_dec")
  /\ thief' = [thief EXCEPT ![DomainOf(w)] = @ - 1]
  /\ Goto(w, "left")
  /\ UNCHANGED <<PFixed, PTaskVars, lscan, PEventVars, active, stop,
                 PMainVars>>

\* A worker that never takes itself for the last thief of its domain.
LastThiefNever(old) == FALSE

\* lazy_work: thief.fetch_sub(1, acq_rel) == 1.
LastThief(old) == old = 1

\* Going to sleep: thief.fetch_sub(1), the last thief checks active.
SleepThiefSub(w) ==
  /\ IsLazy(w, "sleep_dec")
  /\ thief' = [thief EXCEPT ![DomainOf(w)] = @ - 1]
  /\ Goto(w, IF LastThief(thief[DomainOf(w)]) THEN "check_active" ELSE "wait")
  /\ UNCHANGED <<PFixed, PTaskVars, lscan, PEventVars, active, stop,
                 PMainVars>>

\* A last thief that goes to sleep whatever the active count is.
ActiveSeenNever(a) == FALSE

\* active.load(acquire) > 0.
ActiveSeen(a) == a > 0

\* The last thief looks at the active count and wakes itself if it is not 0.
CheckActive(w) ==
  /\ IsLazy(w, "check_active")
  /\ Goto(w, IF ActiveSeen(active) THEN "cancel_self" ELSE "wait")
  /\ UNCHANGED <<PFixed, PTaskVars, lscan, PEventVars, active, thief, stop,
                 PMainVars>>

\* A wait that blocks whatever the epoch is.
EpochMovedNever(e, key) == FALSE

\* event_count::wait: the epoch is no longer the one of the key.
EpochMoved(e, key) == e /= key

\* notifier.wait(key): the atomic wait returns at once when the epoch is no
\* longer the key, and blocks otherwise.
WaitEnter(w) ==
  /\ IsLazy(w, "wait")
  /\ Goto(w, IF EpochMoved(epoch[DomainOf(w)], lkey[w]) THEN "wait_dec" ELSE "blocked")
  /\ UNCHANGED <<PFixed, PTaskVars, lscan, PEventVars, active, thief, stop,
                 PMainVars>>

\* A notified thread leaves the atomic wait.
WaitNotified(w) ==
  /\ IsLazy(w, "blocked")
  /\ ltoken[w]
  /\ ltoken' = [ltoken EXCEPT ![w] = FALSE]
  /\ Goto(w, "wait_dec")
  /\ UNCHANGED <<PFixed, PTaskVars, lscan, lkey, lwake, epoch, waiters,
                 active, thief, stop, PMainVars>>

\* A thread that was not notified may still leave the atomic wait once the
\* epoch has changed (spurious unblocking followed by the value check).
WaitSpurious(w) ==
  /\ IsLazy(w, "blocked")
  /\ ~ltoken[w]
  /\ epoch[DomainOf(w)] /= lkey[w]
  /\ Goto(w, "wait_dec")
  /\ UNCHANGED <<PFixed, PTaskVars, lscan, PEventVars, active, thief, stop,
                 PMainVars>>

\* The tail of event_count::wait: one waiter less, then goto wake_up.
WaitLeave(w) ==
  /\ IsLazy(w, "wait_dec")
  /\ cancel_wait(w)
  /\ Goto(w, "wake_up")
  /\ UNCHANGED <<PFixed, PTaskVars, lscan, lkey, ltoken, lwake, epoch,
                 active, thief, stop, PMainVars>>

\* lazy_work without its stop path, and without spurious unblocking.
LazyStep(w) ==
  \/ WakeUp(w)
  \/ FastPop(w)
  \/ FastSteal(w)
  \/ TwsThiefSub(w)
  \/ TwsNotify(w)
  \/ TwsActiveAdd(w)
  \/ TwsScan(w)
  \/ TwsActiveSub(w)
  \/ PrepareWait(w)
  \/ Recheck(w)
  \/ CancelWait(w)
  \/ StopCheck(w)
  \/ SleepThiefSub(w)
  \/ CheckActive(w)
  \/ WaitEnter(w)
  \/ WaitNotified(w)
  \/ WaitLeave(w)
  \/ FutexWake(w)
  \/ TaskStep(w)

\* The stop path of lazy_work.
LazyExit(w) ==
  \/ ExitNotify(w)
  \/ ExitReturn(w)

\* --- busy_work ---------------------------------------------------------------

IsBusy(w, pc) == pkind = "busy" /\ wkpc[w] = pc

\* A busy worker that returns as soon as it sees the stop flag.
BusyReturnsAtStop == "left"

\* Where busy_work goes when its loop ends: "Finish up any remaining work".
BusyAfterStop == "b_drain"

\* while (!stop.test(acquire)).
BusyTest(w) ==
  /\ IsBusy(w, "b_test")
  /\ Goto(w, IF stop THEN BusyAfterStop ELSE "b_pop")
  /\ UNCHANGED <<PFixed, PTaskVars, lscan, PEventVars, active, thief, stop,
                 PMainVars>>

\* try_pop_all in the loop: resume and continue.
BusyPop(w) ==
  /\ IsBusy(w, "b_pop")
  /\ PopAll(w, "b_resume", "b_steal")
  /\ UNCHANGED <<PFixed, ljob, ldq, rstate, arrived, late, lscan, PEventVars,
                 active, thief, stop, PMainVars>>

\* try_steal in the loop.
BusySteal(w) ==
  /\ IsBusy(w, "b_steal")
  /\ TrySteal(w, "b_resume", "b_test")
  /\ UNCHANGED <<PFixed, lsub, lpend, rstate, arrived, late, lscan,
                 PEventVars, active, thief, stop, PMainVars>>

\* "Finish up any remaining work": drain until try_pop_all gives nothing.
BusyDrain(w) ==
  /\ IsBusy(w, "b_drain")
  /\ PopAll(w, "b_drain_resume", "left")
  /\ UNCHANGED <<PFixed, ljob, ldq, rstate, arrived, late, lscan, PEventVars,
                 active, thief, stop, PMainVars>>

\* --- the end of a worker thread -------------------------------------------------

\* A latch that lets everybody through at once.
LatchOpenAlways(n) == TRUE

\* std::latch::wait on latch_stop, which starts at the number of workers.
LatchOpen(n) == n = PoolWorkers

\* LF_DEFER of lazy_work and busy_work, first half: stop.test_and_set and the
\* arrival at latch_stop.
LatchArrive(w) ==
  /\ wkpc[w] = "left"
  /\ lwake[w] = NoWake
  /\ stop' = TRUE
  /\ latched' = latched + 1
  /\ Goto(w, "latch_wait")
  /\ UNCHANGED <<PSetUp, PTaskVars, lscan, PEventVars, active, thief, PMainVars>>

\* LF_DEFER, second half: the wait at latch_stop ends, finalize_worker
\* destroys the worker's context and the thread function returns.
FinalizeWorker(w) ==
  /\ wkpc[w] = "latch_wait"
  /\ LatchOpen(latched)
  /\ Goto(w, "exited")
  /\ UNCHANGED <<PFixed, PTaskVars, lscan, PEventVars, active, thief, stop,
                 PMainVars>>

ThreadEnd(w) ==
  \/ LatchArrive(w)
  \/ FinalizeWorker(w)

BusyStep(w) ==
  \/ BusyTest(w)
  \/ BusyPop(w)
  \/ BusySteal(w)
  \/ BusyDrain(w)
  \/ (pkind = "busy" /\ TaskStep(w))

\* --- the thread outside the pool ----------------------------------------------

\* worker_context::schedule, first half: m_submit.push(jobs).
SchedulePush(w) ==
  /\ mpc = "idle"
  /\ lwake[0] = NoWake
  /\ mnext \in Roots
  /\ lsub' = [lsub EXCEPT ![w] = Append(@, mnext)]
  /\ rstate' = [rstate EXCEPT ![mnext] = "pushed"]
  /\ late' = [late EXCEPT ![mnext] = wkpc[w] = "stop_check"]
  /\ mpc' = "notify"
  /\ mtarget' = w
  /\ UNCHANGED <<PFixed, wkpc, lpend, ljob, ldq, lscan, PEventVars, active,
                 thief, stop, arrived, mnext, mscan>>

\* worker_context::schedule, second half: m_notify(), which is notify_all
\* on the worker's domain in the lazy pool and a no-op in the busy pool.
ScheduleNotify ==
  /\ mpc = "notify"
  /\ IF pkind = "lazy"
     THEN notify_all(0, DomainOf(mtarget))
     ELSE UNCHANGED <<epoch, lwake>>
  /\ mpc' = "idle"
  /\ mnext' = mnext + 1
  /\ mtarget' = 0
  /\ UNCHANGED <<PFixed, PTaskVars, wkpc, lscan, lkey, ltoken, waiters,
                 active, thief, stop, mscan>>

\* The pool's destructor: stop.test_and_set.
DtorStop ==
  /\ mpc = "idle"
  /\ lwake[0] = NoWake
  /\ stop' = TRUE
  /\ IF pkind = "lazy"
     THEN mpc' = "dtor_notify" /\ mscan' = 1
     ELSE mpc' = "dtor_join" /\ UNCHANGED mscan
  /\ UNCHANGED <<PFixed, PTaskVars, wkpc, lscan, PEventVars, active, thief,
                 mnext, mtarget>>

\* ~lazy_pool: one round of the loop of notify_all over numa.
DtorNotify ==
  /\ mpc = "dtor_notify"
  /\ lwake[0] = NoWake
  /\ notify_all(0, mscan)
  /\ IF mscan = nd
     THEN mpc' = "dtor_join" /\ mscan' = 0
     ELSE UNCHANGED mpc /\ mscan' = mscan + 1
  /\ UNCHANGED <<PFixed, PTaskVars, wkpc, lscan, lkey, ltoken, waiters,
                 active, thief, stop, mnext, mtarget>>

\* The destructor joins every worker thread and returns.
DtorJoin ==
  /\ mpc = "dtor_join"
  /\ lwake[0] = NoWake
  /\ \A w \in PWorkers : wkpc[w] = "exited"
  /\ mpc' = "returned"
  /\ UNCHANGED <<PFixed, PTaskVars, wkpc, lscan, PEventVars, active, thief,
                 stop, mnext, mtarget, mscan>>

ScheduleStep ==
  \/ \E w \in PWorkers : SchedulePush(w)
  \/ ScheduleNotify
  \/ FutexWake(0)

DtorStep ==
  \/ DtorStop
  \/ DtorNotify
  \/ DtorJoin

\* The lazy pool while it is alive.
NextLazy ==
  \/ \E w \in PWorkers : LazyStep(w)
  \/ \E w \in PWorkers : WaitSpurious(w)
  \/ ScheduleStep

\* Either pool, from construction to the return of its destructor.
NextPools ==
  \/ \E w \in PWorkers : LazyStep(w)
  \/ \E w \in PWorkers : WaitSpurious(w)
  \/ \E w \in PWorkers : LazyExit(w)
  \/ \E w \in PWorkers : BusyStep(w)
  \/ \E w \in PWorkers : ThreadEnd(w)
  \/ ScheduleStep
  \/ DtorStep

\* ========================================================================
\* Part 7: the counters of one fork-join scope
\* ========================================================================
\*
\* One parent frame and the children it forks in one scope, seen through
\* frame::m_steal and frame::m_join only.  The steal of the parent's handle
\* from the deque and the thief's m_steal++ are two steps, as are each
\* child's fetch_sub and the two halves of the join.  The scope starts after
\* JoinBase earlier forks of it were stolen and have all returned, which lets
\* a few further forks take the number of stolen forks up to k_u16_max.

\* Number of forks the parent issues after the initial state.
MaxForks == 3

VARIABLES
  jsteal,     \* frame::m_steal of the parent
  jjoin,      \* frame::m_join of the parent
  jpar,       \* where the parent is
  jkids,      \* children whose parent was stolen and that have not returned
  jforks,     \* forks issued since the initial state
  jstolen,    \* forks of this scope whose continuation was stolen so far
  jresumes,   \* times the parent was continued past its join
  jby,        \* who continued the parent past its join
  jviol,      \* what went wrong so far
  jwrap,      \* whether an operation on m_join went below zero
  jrun,       \* the stack held by the worker that executes the parent
  jcs,        \* stack |-> children not yet returned whose worker holds it
  jlast       \* what the last child to return did with its worker's stack

joinVars ==
  <<jsteal, jjoin, jpar, jkids, jforks, jstolen, jresumes, jby, jviol, jwrap,
    jrun, jcs, jlast>>

\* The stack a worker holds is the one the parent's frame lives on, or one
\* of its own that the parent is not on.
StackKinds == {"parents", "own"}

\* Stolen forks of the scope that returned before the initial state.
JoinBases == {0, k_u16_max - MaxForks}

StartJoin(b) ==
  /\ jsteal = b
  /\ jjoin = k_u16_max - b
  /\ jpar = "run"
  /\ jkids = 0
  /\ jforks = 0
  /\ jstolen = b
  /\ jresumes = 0
  /\ jby = "nobody"
  /\ jviol = {}
  /\ jwrap = FALSE
  /\ jrun = (IF b = 0 THEN "parents" ELSE "own")
  /\ jcs = [c \in StackKinds |-> 0]
  /\ jlast = "none"

InitJoin == \E b \in JoinBases : StartJoin(b)

RestJoin == StartJoin(0)

\* A faulty subtrahend for the join's fetch_sub: the whole sentinel.
JoinSubAll(steals) == k_u16_max

\* join_awaitable::await_suspend: what the join subtracts from m_join.
JoinSub(steals) == k_u16_max - steals

\* A faulty fetch_sub that stores nothing.
FetchSubKeeps(old, val) == old

\* frame::fetch_sub_joins(val): the new value of m_join.
fetch_sub_joins(old, val) == U16(old - val + k_u16_max + 1)

\* frame::fetch_add_steal: the new value of m_steal.
fetch_add_steal(old) == U16(old + 1)

JCounters == <<jsteal, jjoin>>

JGhosts == <<jresumes, jby, jviol, jwrap>>

JStacks == <<jrun, jcs, jlast>>

\* frame::reset on the parent.
JReset ==
  /\ jsteal' = 0
  /\ jjoin' = k_u16_max

\* fork_awaitable::await_suspend: the parent's handle goes into the deque and
\* the child runs on the same worker.
JFork ==
  /\ jpar = "run"
  /\ jforks < MaxForks
  /\ jpar' = "forked"
  /\ jforks' = jforks + 1
  /\ UNCHANGED <<JCounters, jkids, jstolen, JGhosts, JStacks>>

\* final_await_suspend, pop succeeded: the child returns, the parent was not
\* stolen and continues on the same worker.
JChildPops ==
  /\ jpar = "forked"
  /\ jpar' = "run"
  /\ UNCHANGED <<JCounters, jkids, jforks, jstolen, JGhosts, JStacks>>

\* deque::steal by another worker succeeded: the thief holds the parent's
\* handle, the running child has lost its parent.  The child goes on on the
\* stack of the worker that forked it; the thief's stack is empty and its
\* own.
JStealCas ==
  /\ jpar = "forked"
  /\ jpar' = "stolen"
  /\ jkids' = jkids + 1
  /\ jstolen' = jstolen + 1
  /\ jcs' = [jcs EXCEPT ![jrun] = @ + 1]
  /\ jrun' = "own"
  /\ UNCHANGED <<JCounters, jforks, JGhosts, jlast>>

\* resume(task_handle): the thief counts the steal and runs the parent.
JResumeStolen ==
  /\ jpar = "stolen"
  /\ jsteal' = fetch_add_steal(jsteal)
  /\ jpar' = "run"
  /\ UNCHANGED <<jjoin, jkids, jforks, jstolen, JGhosts, JStacks>>

\* final_await_suspend, pop failed: a child whose parent was stolen returns.
\* The child that reads 1 resets the parent and resumes it, whatever the
\* parent is doing; past a resume of a parent that published no join, two
\* threads execute the parent and the scope is followed no further.
JFinalAwaitSuspend(c) ==
  /\ jkids > 0
  /\ jcs[c] > 0
  /\ jpar /= "raced"
  /\ jkids' = jkids - 1
  /\ jcs' = [jcs EXCEPT ![c] = @ - 1]
  /\ jwrap' = (jwrap \/ jjoin < 1)
  /\ IF LastChild(jjoin)
       THEN /\ JReset
            /\ jresumes' = jresumes + 1
            /\ jby' = "child"
            /\ jpar' = IF jpar = "waiting" THEN "after_join" ELSE "raced"
            /\ jviol' = IF jpar = "waiting"
                          THEN jviol
                          ELSE jviol \cup {"resumed_before_join"}
            /\ jlast' = IF SameStack("parents", c) THEN "had" ELSE "took"
            /\ jrun' = "parents"
       ELSE /\ jjoin' = fetch_sub_joins(jjoin, 1)
            /\ jlast' = IF SameStack("parents", c) THEN "released" ELSE "kept"
            /\ UNCHANGED <<jsteal, jpar, jresumes, jby, jviol, jrun>>
  /\ UNCHANGED <<jforks, jstolen>>

\* join_awaitable::await_ready.
JAwaitReady ==
  /\ jpar = "run"
  /\ IF NoSteals(jsteal)
       THEN /\ jpar' = "after_join"
            /\ jresumes' = jresumes + 1
            /\ jby' = "joiner"
            /\ UNCHANGED <<JCounters, jrun>>
       ELSE IF JoinReady(jsteal, jjoin)
         THEN /\ JReset
              /\ jpar' = "after_join"
              /\ jresumes' = jresumes + 1
              /\ jby' = "joiner"
              /\ jrun' = "parents"
         ELSE /\ jpar' = "join_suspend"
              /\ UNCHANGED <<JCounters, jresumes, jby, jrun>>
  /\ UNCHANGED <<jkids, jforks, jstolen, jviol, jwrap, jcs, jlast>>

\* join_awaitable::await_suspend: the join is published by the fetch_sub.
JAwaitSuspend ==
  /\ jpar = "join_suspend"
  /\ jwrap' = (jwrap \/ jjoin < JoinSub(jsteal))
  /\ IF JoinWon(jsteal, jjoin)
       THEN /\ JReset
            /\ jpar' = "after_join"
            /\ jresumes' = jresumes + 1
            /\ jby' = "joiner"
            /\ jrun' = "parents"
       ELSE /\ jjoin' = fetch_sub_joins(jjoin, JoinSub(jsteal))
            /\ jpar' = "waiting"
            /\ UNCHANGED <<jsteal, jresumes, jby, jrun>>
  /\ UNCHANGED <<jkids, jforks, jstolen, jviol, jcs, jlast>>

NextJoin ==
  \/ JFork
  \/ JChildPops
  \/ JStealCas
  \/ JResumeStolen
  \/ \E c \in StackKinds : JFinalAwaitSuspend(c)
  \/ JAwaitReady
  \/ JAwaitSuspend

\* ========================================================================
\* Part 8: a fork whose push throws
\* ========================================================================
\*
\* fork_awaitable::await_suspend on top of the deque of Part 2: the owner's
\* pushes are the forks of the task it runs, the handle pushed by the n-th
\* fork is n and so is the child of that fork.  The allocation of the bigger
\* ring buffer in deque::push may fail.

VARIABLES
  fk,         \* the fork in progress: the awaitable's child member, the local
              \* stack_child, the child's and the parent's state
  fdestroyed, \* times the child of that fork was destroyed
  fthrown,    \* handles whose push threw
  fsnap       \* the deque as it was when that fork's push began

forkVars == <<fk, fdestroyed, fthrown, fsnap>>

NoFork == [aw_child |-> Null, stack_child |-> Null, child |-> "none",
           parent |-> "run"]

SnapDeque == [bottom |-> m_bottom, buf |-> m_buf, content |-> heap[m_buf],
              garbage |-> m_garbage]

InitFork ==
  /\ fk = NoFork
  /\ fdestroyed = 0
  /\ fthrown = {}
  /\ fsnap = [bottom |-> 0, buf |-> 1, content |-> atomic_ring_buf(InitialCap),
              garbage |-> <<>>]

\* A faulty await_suspend that copies the child member and leaves it set.
ExchangeKeeps(c) == c

\* std::exchange(child, nullptr): what the awaitable's child member holds
\* afterwards.
ExchangeChild(c) == Null

\* frame_deleter on a unique_frame: destroys the coroutine if it holds one.
DestroyedByOwner(u) == IF u = Null THEN 0 ELSE 1

\* await_suspend up to the loads of deque::push; the task that runs forks.
ForkAwaitSuspend ==
  /\ fk.parent \in {"run", "suspended"}
  /\ fk' = [aw_child |-> ExchangeChild(npushed + 1),
            stack_child |-> npushed + 1,
            child |-> "created",
            parent |-> "awaiting"]
  /\ fdestroyed' = 0
  /\ fsnap' = SnapDeque
  /\ PushBegin
  /\ UNCHANGED fthrown

\* new atomic_ring_buf in resize throws std::bad_alloc: the exception leaves
\* push and await_suspend, stack_child is destroyed on the way, the coroutine
\* is resumed and the exception is thrown again inside it.
ForkPushThrows ==
  /\ opc = "push_resize"
  /\ opc' = "idle"
  /\ ol' = NoLocals
  /\ fdestroyed' = fdestroyed + DestroyedByOwner(fk.stack_child)
  /\ fk' = [fk EXCEPT !.stack_child = Null,
                      !.child = IF fk.stack_child = Null THEN @ ELSE "destroyed",
                      !.parent = "rethrow"]
  /\ fthrown' = fthrown \cup {ol.val}
  /\ UNCHANGED <<m_top, m_bottom, m_buf, m_garbage, heap, tpc, tl, npushed, log,
                 fsnap>>

\* The exception unwinds the co_await expression: the awaitable is destroyed
\* and the parent goes on with the exception.
ForkAwaitableDestroyed ==
  /\ fk.parent = "rethrow"
  /\ fdestroyed' = fdestroyed + DestroyedByOwner(fk.aw_child)
  /\ fk' = [fk EXCEPT !.aw_child = Null, !.parent = "run"]
  /\ UNCHANGED <<dqVars, fthrown, fsnap>>

\* The push is published and await_suspend returns stack_child.release()
\* ->self(): the child starts.
ForkTransfers ==
  /\ PushPublish
  /\ fk' = [fk EXCEPT !.stack_child = Null, !.child = "running",
                      !.parent = "suspended"]
  /\ UNCHANGED <<fdestroyed, fthrown, fsnap>>

\* The other steps of the deque: the rest of push, the pops of tasks that
\* return (none returns while the exception unwinds the co_await), the
\* thieves.
ForkDequeStep ==
  /\ \/ PushResize
     \/ PushStore
     \/ PopBegin /\ fk.parent /= "rethrow"
     \/ PopTake
     \/ PopLast
     \/ PopEmpty
     \/ PopCasWon
     \/ PopCasLost
     \/ PopRestore
     \/ PopRestoreWon
     \/ \E t \in Thieves : ThiefStep(t)
  /\ UNCHANGED forkVars

NextFork ==
  \/ ForkAwaitSuspend
  \/ ForkPushThrows
  \/ ForkAwaitableDestroyed
  \/ ForkTransfers
  \/ ForkDequeStep

\* ========================================================================
\* Part 9: schedule and the future of a root task
\* ========================================================================
\*
\* One thread calls schedule and then wait and get on the futures it was
\* given; the scheduler's workers run the submitted root tasks to their final
\* suspension.  The thread is a plain thread, a worker thread (worker_init set
\* both thread-local flags) or a thread that is already inside schedule.

\* Number of schedule calls that get as far as the scheduler.
MaxFutures == 2

\* Number of calls to get on one future.
MaxGets == 2

VARIABLES
  has_stack,    \* tls::has_stack of the calling thread
  has_context,  \* tls::has_context of the calling thread
  thread_stack, \* what tls::thread_stack holds
  futs,         \* future |-> shared state: status, sem, and the root task
  ssub,         \* what the scheduler was handed, in order
  cpc,          \* where the calling thread is
  cfut,         \* the future the calling thread is working on
  cexc,         \* what the last call of the thread threw
  gets,         \* future |-> what its get calls returned or threw, in order
  tfib,         \* the stacklet the thread's stack points at (m_fib), or Null
  sheap,        \* live stacklets: address |-> what m_sp points at and the owner
  rootsk,       \* future |-> frame::stacklet() of its root task
  cviol         \* assertions that failed on the calling thread

schedVars ==
  <<has_stack, has_context, thread_stack, futs, ssub, cpc, cfut, cexc, gets,
    tfib, sheap, rootsk, cviol>>

SStack == <<tfib, sheap, rootsk, cviol>>

SAddrs == 1..(2 * MaxFutures + 1)

\* std::malloc of a stacklet: an address that is not in use.
SMalloc(h) == CHOOSE a \in SAddrs : a \notin DOMAIN h /\ \A b \in SAddrs : b \notin DOMAIN h => a <= b

\* stacklet::next_stacklet(): an empty stacklet at address a, held by who.
SNewStacklet(h, a, who) ==
  [b \in DOMAIN h \cup {a} |-> IF b = a THEN [sp |-> "lo", owner |-> who] ELSE h[b]]

\* std::free of the stacklet at address a.
SFree(h, a) == [b \in DOMAIN h \ {a} |-> h[b]]

Futures == 1..MaxFutures

NoFuture == Null

\* make_shared<future_shared_state>(): status no_wait, sem{0}.
NewSharedState == [status |-> "no_wait", sem |-> 0, root |-> "built",
                   res |-> "none"]

Unscheduled == [status |-> "none", sem |-> 0, root |-> "unborn", res |-> "none"]

\* The thread-locals of the three kinds of calling thread.
ThreadKinds ==
  { [hs |-> FALSE, hc |-> FALSE, stk |-> "none"],
    [hs |-> TRUE, hc |-> TRUE, stk |-> "worker"],
    [hs |-> TRUE, hc |-> FALSE, stk |-> "schedule"] }

StartSched(k) ==
  /\ has_stack = k.hs
  /\ has_context = k.hc
  /\ thread_stack = k.stk
  /\ futs = [f \in Futures |-> Unscheduled]
  /\ ssub = <<>>
  /\ cpc = "idle"
  /\ cfut = NoFuture
  /\ cexc = "none"
  /\ gets = [f \in Futures |-> <<>>]
  /\ tfib = IF k.hs THEN 1 ELSE Null
  /\ sheap = [a \in (IF k.hs THEN {1} ELSE {}) |-> [sp |-> "lo", owner |-> "thread"]]
  /\ rootsk = [f \in Futures |-> Null]
  /\ cviol = {}

InitSched == \E k \in ThreadKinds : StartSched(k)

RestSched == StartSched([hs |-> FALSE, hc |-> FALSE, stk |-> "none"])

\* A faulty test that lets every thread through.
InWorkerNever(hs, hc) == FALSE

\* schedule: the test on the thread-locals.
InWorker(hs, hc) == hs \/ hc

\* A faulty get that leaves the status at ready.
AfterGetReady == "ready"

\* future::get: the status it stores before handing out the result.
AfterGet == "retrievd"

\* The futures not handed out yet; schedule takes the lowest.
NextFuture ==
  CHOOSE f \in Futures :
    /\ futs[f].root = "unborn"
    /\ \A g \in Futures : futs[g].root = "unborn" => f <= g

SFutVars == <<futs, ssub, cfut, gets>>

STls == <<has_stack, has_context, thread_stack>>

\* schedule, called on a thread with worker thread-locals: throws.
ScheduleThrows ==
  /\ cpc = "idle"
  /\ InWorker(has_stack, has_context)
  /\ cexc' = "schedule_in_worker"
  /\ UNCHANGED <<STls, SFutVars, cpc, SStack>>

\* schedule, up to the construction of the thread's stack.
ScheduleConstruct ==
  /\ cpc = "idle"
  /\ ~InWorker(has_stack, has_context)
  /\ \E f \in Futures : futs[f].root = "unborn"
  /\ thread_stack' = "schedule"
  /\ has_stack' = TRUE
  /\ tfib' = SMalloc(sheap)
  /\ sheap' = SNewStacklet(sheap, SMalloc(sheap), "thread")
  /\ cpc' = "constructed"
  /\ cexc' = "none"
  /\ UNCHANGED <<has_context, SFutVars, rootsk, cviol>>

\* schedule: the shared state, the root coroutine on this thread's stack
\* (operator new allocates on the top stacklet, which the frame records),
\* set_root_sem, release of the stack: the stacklet stays with the
\* coroutine and the thread's stack points at a fresh one.
ScheduleBuild ==
  /\ cpc = "constructed"
  /\ cfut' = NextFuture
  /\ futs' = [futs EXCEPT ![NextFuture] = NewSharedState]
  /\ rootsk' = [rootsk EXCEPT ![NextFuture] = tfib]
  /\ LET given == [sheap EXCEPT ![tfib] = [sp |-> "frame", owner |-> "root"]]
     IN /\ tfib' = SMalloc(given)
        /\ sheap' = SNewStacklet(given, SMalloc(given), "thread")
  /\ cpc' = "built"
  /\ UNCHANGED <<STls, ssub, cexc, gets, cviol>>

\* schedule: sch.schedule(node) succeeds, the future is returned; LF_DEFER
\* destroys the thread's stack.
ScheduleReturns ==
  /\ cpc = "built"
  /\ ssub' = Append(ssub, cfut)
  /\ futs' = [futs EXCEPT ![cfut].root = "submitted"]
  /\ thread_stack' = "none"
  /\ has_stack' = FALSE
  /\ sheap' = SFree(sheap, tfib)
  /\ tfib' = Null
  /\ cpc' = "idle"
  /\ cfut' = NoFuture
  /\ UNCHANGED <<has_context, cexc, gets, rootsk, cviol>>

\* ~promise_base: LF_ASSERT(tls::stack()->top() == stacklet()).
OnItsStack(top, stacklet) == top = stacklet

\* stack::deallocate(ptr) of a frame that lives on stacklet from, by a stack
\* whose top is the stacklet at: m_sp of the top takes the pointer's value.
SDeallocate(h, at, from) ==
  [h EXCEPT ![at].sp = IF at = from THEN "lo" ELSE "foreign"]

\* schedule: sch.schedule(node) throws (strong guarantee): the quasi_awaitable
\* destroys the coroutine (the promise's destructor with its assertion, then
\* operator delete on the thread's stack), LF_DEFER destroys the thread's
\* stack.  A failed assertion aborts the program where assertions are
\* compiled in and is undefined behaviour where they are not; of the
\* latter the run that goes on as if nothing was asserted is followed.
ScheduleFails ==
  /\ cpc = "built"
  /\ IF OnItsStack(tfib, rootsk[cfut])
       THEN /\ sheap' = SFree(SDeallocate(sheap, tfib, rootsk[cfut]), tfib)
            /\ futs' = [futs EXCEPT ![cfut].root = "destroyed"]
            /\ thread_stack' = "none"
            /\ has_stack' = FALSE
            /\ tfib' = Null
            /\ cpc' = "idle"
            /\ cfut' = NoFuture
            /\ cexc' = "scheduler"
            /\ UNCHANGED cviol
       ELSE /\ cviol' = cviol \cup {"~promise_base: top() == stacklet()"}
            /\ \/ /\ cpc' = "aborted"
                  /\ UNCHANGED <<futs, thread_stack, has_stack, tfib, sheap, cfut, cexc>>
               \/ /\ sheap' = SFree(SDeallocate(sheap, tfib, rootsk[cfut]), tfib)
                  /\ futs' = [futs EXCEPT ![cfut].root = "destroyed"]
                  /\ thread_stack' = "none"
                  /\ has_stack' = FALSE
                  /\ tfib' = Null
                  /\ cpc' = "idle"
                  /\ cfut' = NoFuture
                  /\ cexc' = "scheduler"
  /\ UNCHANGED <<has_context, ssub, gets, rootsk>>

\* A worker of the scheduler resumes the submitted root: resume takes the
\* root's stacklet as the worker's stack.
SRootStarts ==
  \E f \in Futures :
    /\ cpc /= "aborted"
    /\ futs[f].root = "submitted"
    /\ futs' = [futs EXCEPT ![f].root = "running"]
    /\ sheap' = [sheap EXCEPT ![rootsk[f]].owner = "worker"]
    /\ UNCHANGED <<STls, ssub, cpc, cfut, cexc, gets, tfib, rootsk, cviol>>

\* The root returns a value or lets an exception escape, which
\* unhandled_exception stashes in the shared state; final_awaitable releases
\* the semaphore.
SRootFinishes ==
  \E f \in Futures, r \in {"value", "exception"} :
    /\ cpc /= "aborted"
    /\ futs[f].root = "running"
    /\ futs' = [futs EXCEPT ![f].root = "done", ![f].res = r, ![f].sem = 1]
    /\ sheap' = SFree(SDeallocate(sheap, rootsk[f], rootsk[f]), rootsk[f])
    /\ UNCHANGED <<STls, ssub, cpc, cfut, cexc, gets, tfib, rootsk, cviol>>

\* The futures the thread holds.
Held == {f \in Futures : futs[f].root \in {"submitted", "running", "done"}}

\* future::wait and the wait() of future::get with the status at no_wait:
\* the thread goes into sem.acquire().
WaitBlocks(op) ==
  \E f \in Held :
    /\ cpc = "idle"
    /\ op = "get" => Len(gets[f]) < MaxGets
    /\ futs[f].status = "no_wait"
    /\ cpc' = op
    /\ cfut' = f
    /\ cexc' = "none"
    /\ UNCHANGED <<STls, futs, ssub, gets, SStack>>

\* sem.acquire() returns, status = ready; wait() returns.
WaitAcquires ==
  /\ cpc = "wait"
  /\ futs[cfut].sem = 1
  /\ futs' = [futs EXCEPT ![cfut].sem = 0, ![cfut].status = "ready"]
  /\ cpc' = "idle"
  /\ cfut' = NoFuture
  /\ UNCHANGED <<STls, ssub, cexc, gets, SStack>>

\* The same inside get, which goes on to hand out the result.
GetAcquires ==
  /\ cpc = "get"
  /\ futs[cfut].sem = 1
  /\ futs' = [futs EXCEPT ![cfut].sem = 0, ![cfut].status = "ready"]
  /\ cpc' = "get_ready"
  /\ UNCHANGED <<STls, ssub, cfut, cexc, gets, SStack>>

\* future::get with the status not at no_wait: wait() returns at once.
GetSkipsWait ==
  \E f \in Held :
    /\ cpc = "idle"
    /\ Len(gets[f]) < MaxGets
    /\ futs[f].status /= "no_wait"
    /\ cpc' = "get_ready"
    /\ cfut' = f
    /\ cexc' = "none"
    /\ UNCHANGED <<STls, futs, ssub, gets, SStack>>

\* future::get after wait(): empty_future if the result was retrieved, else
\* the status is stored and the exception rethrown or the value returned.
GetFinishes ==
  /\ cpc = "get_ready"
  /\ IF futs[cfut].status = "retrievd"
       THEN /\ gets' = [gets EXCEPT ![cfut] = Append(@, "empty_future")]
            /\ cexc' = "empty_future"
            /\ UNCHANGED futs
       ELSE /\ futs' = [futs EXCEPT ![cfut].status = AfterGet]
            /\ gets' = [gets EXCEPT ![cfut] = Append(@, futs[cfut].res)]
            /\ cexc' = IF futs[cfut].res = "exception" THEN "root" ELSE "none"
  /\ cpc' = "idle"
  /\ cfut' = NoFuture
  /\ UNCHANGED <<STls, ssub, SStack>>

NextSched ==
  \/ ScheduleThrows
  \/ ScheduleConstruct
  \/ ScheduleBuild
  \/ ScheduleReturns
  \/ ScheduleFails
  \/ SRootStarts
  \/ SRootFinishes
  \/ \E op \in {"wait", "get"} : WaitBlocks(op)
  \/ WaitAcquires
  \/ GetAcquires
  \/ GetSkipsWait
  \/ GetFinishes

\* ========================================================================
\* Part 10: the segmented stack
\* ========================================================================
\*
\* One stack object under a LIFO sequence of allocate and deallocate calls.
\* Sizes, capacities and stack pointers are counted in units of k_new_align
\* (allocate rounds every size up to one), an address is a stacklet and an
\* offset from its m_lo.  malloc hands out the lowest address not in use, so
\* the address of a freed stacklet comes back.  A stacklet gets exactly the
\* capacity asked of next_stacklet (the rounding up to a page is left out).

\* Capacity of the first stacklet (LF_FIBRE_INIT_SIZE).
StackInit == 2

\* Largest number of allocations alive at once.
MaxDepth == 3

\* deallocate: a cached stacklet more than this many times the capacity of
\* the top one is freed.
k_over_cache == 8

VARIABLES
  sk,       \* live stacklets: address |-> m_sp, m_hi, m_prev, m_next (m_lo = 0)
  m_fib,    \* stack::m_fib
  allocs,   \* the allocations handed out and not yet returned, oldest first,
            \* each with its address, its size and how allocate found room
  sviol,    \* assertions of the stack that failed
  parked    \* a released stack that waits for the task on it to be resumed:
            \* <<its stacklets, their top and the allocations on them>>, or <<>>

stackVars == <<sk, m_fib, allocs, sviol, parked>>

\* The sizes asked for: nothing, less than the first stacklet, more than it,
\* and enough to make the stacklet that holds it too big to stay cached.
AllocSizes == {0, 1, StackInit + 1, k_over_cache * StackInit + 1}

StackletIds == 1..(MaxDepth + 2)

\* stacklet::next_stacklet(size, prev), the fields of the new stacklet.
NewStacklet(size, prev) ==
  [m_sp |-> 0, m_hi |-> size, m_prev |-> prev, m_next |-> Null]

InitStack ==
  /\ sk = [i \in {1} |-> NewStacklet(StackInit, Null)]
  /\ m_fib = 1
  /\ allocs = <<>>
  /\ sviol = {}
  /\ parked = <<>>

sk_capacity(st) == st.m_hi

unused(st) == st.m_hi - st.m_sp

sk_empty(st) == st.m_sp = 0

\* stacklet::is_top
is_top(stk, i) ==
  IF stk[i].m_next /= Null
    THEN /\ stk[i].m_next \in DOMAIN stk
         /\ sk_empty(stk[stk[i].m_next])
         /\ stk[stk[i].m_next].m_next = Null
    ELSE TRUE

\* std::malloc: an address that is not in use.
Malloc(stk) == CHOOSE i \in StackletIds : i \notin DOMAIN stk /\ \A j \in StackletIds : j \notin DOMAIN stk => i <= j

\* A faulty set_next that forgets the stacklet that was next.
SetNextKeeps(stk, i, new_next) == stk

\* stacklet::set_next on stacklet i: the stacklet that was next is freed.
set_next(stk, i, new_next) ==
  [j \in DOMAIN stk \ {stk[i].m_next} |->
     IF j = i THEN [stk[j] EXCEPT !.m_next = new_next] ELSE stk[j]]

\* A faulty test that takes the cached stacklet whatever its capacity.
CachedFitsAlways(cap, ext) == TRUE

\* stack::allocate: can the cached stacklet hold the request
CachedFits(cap, ext) == cap >= ext

Max(a, b) == IF a >= b THEN a ELSE b

\* stack::allocate: the stacklets and m_fib once there is room for ext.
MakeRoom(stk, fib, ext) ==
  IF unused(stk[fib]) < ext
    THEN IF stk[fib].m_next /= Null /\ CachedFits(sk_capacity(stk[stk[fib].m_next]), ext)
           THEN [stk |-> stk, fib |-> stk[fib].m_next, how |-> "cached"]
           ELSE LET n == Malloc(stk)
                    linked == set_next(stk, fib, n)
                IN [stk |-> [j \in DOMAIN linked \cup {n} |->
                               IF j = n
                                 THEN NewStacklet(Max(2 * sk_capacity(stk[fib]), ext), fib)
                                 ELSE linked[j]],
                    fib |-> n, how |-> "grown"]
    ELSE [stk |-> stk, fib |-> fib, how |-> "fits"]

\* stack::allocate(size)
StackAllocate(size) ==
  /\ Len(allocs) < MaxDepth
  /\ LET r == MakeRoom(sk, m_fib, size)
     IN /\ sk' = [r.stk EXCEPT ![r.fib].m_sp = @ + size]
        /\ m_fib' = r.fib
        /\ allocs' = Append(allocs, [id |-> r.fib, off |-> r.stk[r.fib].m_sp,
                                     size |-> size, how |-> r.how])
        /\ sviol' = sviol
                      \cup (IF is_top(sk, m_fib) THEN {} ELSE {"allocate_not_top"})
                      \cup (IF is_top(r.stk, r.fib) THEN {} ELSE {"allocated_not_top"})
  /\ UNCHANGED parked

\* stack::deallocate: the stacklets and m_fib after m_sp was set back and the
\* top stacklet was found empty.
DropEmpty(stk, fib) ==
  LET back == IF stk[fib].m_prev /= Null
                THEN [stk |-> set_next(stk, fib, Null), fib |-> stk[fib].m_prev]
                ELSE [stk |-> stk, fib |-> fib]
      nxt == back.stk[back.fib].m_next
  IN  IF nxt /= Null
         /\ sk_capacity(back.stk[nxt]) > k_over_cache * sk_capacity(back.stk[back.fib])
        THEN [stk |-> set_next(back.stk, back.fib, Null), fib |-> back.fib]
        ELSE back

\* stack::deallocate(ptr), with the last allocation handed out.  m_sp takes
\* the pointer's value, whichever stacklet the pointer points into.
StackDeallocate ==
  /\ allocs /= <<>>
  /\ LET ptr == Last(allocs)
         set == [sk EXCEPT ![m_fib].m_sp = ptr.off]
         r == IF sk_empty(set[m_fib]) THEN DropEmpty(set, m_fib)
              ELSE [stk |-> set, fib |-> m_fib]
     IN /\ sk' = r.stk
        /\ m_fib' = r.fib
        /\ sviol' = sviol
                      \cup (IF ptr.id = m_fib THEN {} ELSE {"foreign_pointer"})
                      \cup (IF is_top(sk, m_fib) THEN {} ELSE {"deallocate_not_top"})
                      \cup (IF is_top(r.stk, r.fib) THEN {} ELSE {"deallocated_not_top"})
  /\ allocs' = Front(allocs)
  /\ UNCHANGED parked

\* stack::empty
stack_empty(stk, fib) == sk_empty(stk[fib]) /\ stk[fib].m_prev = Null

\* stack::release: the stacklets go with the task that lives on them and the
\* stack starts again from one fresh stacklet.
StackRelease ==
  /\ parked = <<>>
  /\ parked' = <<[stk |-> sk, fib |-> m_fib, allocs |-> allocs]>>
  /\ sk' = [i \in {1} |-> NewStacklet(StackInit, Null)]
  /\ m_fib' = 1
  /\ allocs' = <<>>
  /\ UNCHANGED sviol

\* *stack = stack{frame->stacklet()}, as resume and take_stack_reset_frame
\* do it on a stack without allocations: the constructor from a stacklet,
\* the swap, and the destructor of the stack that is given up.
StackTake ==
  /\ parked /= <<>>
  /\ allocs = <<>>
  /\ sk' = parked[1].stk
  /\ m_fib' = parked[1].fib
  /\ allocs' = parked[1].allocs
  /\ parked' = <<>>
  /\ sviol' = sviol
                \cup (IF is_top(sk, m_fib) THEN {} ELSE {"empty_not_top"})
                \cup (IF stack_empty(sk, m_fib) THEN {} ELSE {"taken_on_used_stack"})
                \cup (IF is_top(parked[1].stk, parked[1].fib) THEN {} ELSE {"constructed_not_top"})
                \cup (IF sk[m_fib].m_prev = Null THEN {} ELSE {"destroyed_above_root"})

NextStack ==
  \/ \E size \in AllocSizes : StackAllocate(size)
  \/ StackDeallocate
  \/ StackRelease
  \/ StackTake

\* ========================================================================
\* Part 11: the fibre (fibre.hpp)
\* ========================================================================

\* Allocations that may be live at once.
MaxFibreAllocs == 3

\* __STDCPP_DEFAULT_NEW_ALIGNMENT__ of the usual 64-bit targets.
k_new_align == 16

\* fibre::k_init_size
k_init_size == 256

\* The sizes asked of allocate: below, at and not at a multiple of the
\* alignment, and one above twice the initial fibre_capacity.
FibreSizes == {1, k_new_align, 200, 2 * k_init_size + 1}

VARIABLES
  f_top,    \* the chain of fibrils m_top owns, root first: fibre_capacity of each
  m_sp,     \* the stack pointer: the fibril it points into and the offset
            \* from that fibril's m_lo
  f_live    \* the regions returned by allocate and not yet deallocated

fibreVars == <<f_top, m_sp, f_live>>

\* The mirrors of the top fibril's m_lo and m_hi, updated by the
\* constructor and by grow whenever m_top changes.
m_lo == [fib |-> Len(f_top), off |-> 0]

m_hi == [fib |-> Len(f_top), off |-> f_top[Len(f_top)]]

\* fibre::capacity
fibre_capacity == m_hi.off - m_lo.off

\* Arithmetic of std::size_t; 2^30 stands for 2^64, which is beyond the
\* integers of TLC.
SizeT(x) == x % (2^30)

\* allocate: round up to the next multiple of the alignment.
ExtSize(size) == ((size + k_new_align - 1) \div k_new_align) * k_new_align

\* fibril::next_fibril: malloc(sizeof(fibril) + size), m_hi = m_lo + size.
next_fibril(size, prev) == Append(prev, size)

\* fibre::fibre()
InitFibre ==
  /\ f_top = next_fibril(k_init_size, <<>>)
  /\ m_sp = [fib |-> 1, off |-> 0]
  /\ f_live = <<>>

\* fibre::grow(space): the new top fibril's fibre_capacity.
GrowSize(space) == IF 2 * fibre_capacity >= space THEN 2 * fibre_capacity ELSE space

\* allocate: m_hi - m_sp < ext_size, the difference converted to size_t.
\* Pointers into different fibrils are unrelated addresses.
NoRoom(ext_size) ==
  IF m_sp.fib = m_hi.fib
    THEN {SizeT(m_hi.off - m_sp.off) < ext_size}
    ELSE BOOLEAN

\* fibre::allocate(size)
FibreAllocate(size) ==
  /\ Len(f_live) < MaxFibreAllocs
  /\ \E grows \in NoRoom(ExtSize(size)) :
       LET top == IF grows THEN next_fibril(GrowSize(size), f_top) ELSE f_top
           sp  == IF grows THEN [fib |-> Len(top), off |-> 0] ELSE m_sp
       IN  /\ f_top' = top
           /\ m_sp' = [sp EXCEPT !.off = @ + ExtSize(size)]
           /\ f_live' = Append(f_live, [ptr |-> sp, size |-> ExtSize(size)])

\* fibre::deallocate(ptr), called in FILO order with allocate.
FibreDeallocate ==
  /\ f_live /= <<>>
  /\ m_sp' = IF m_sp = m_lo THEN m_sp ELSE Last(f_live).ptr
  /\ f_live' = Front(f_live)
  /\ UNCHANGED f_top

NextFibre ==
  \/ \E size \in FibreSizes : FibreAllocate(size)
  \/ FibreDeallocate

\* ========================================================================
\* The specifications
\* ========================================================================

vars == <<rtVars, dqVars, liVars, excVars, poolVars, joinVars, forkVars, schedVars, stackVars, fibreVars>>

Init == InitRT /\ InitDeque /\ InitList /\ RestExc /\ RestPool /\ RestJoin /\ InitFork /\ RestSched /\ InitStack /\ InitFibre

Next == NextRT /\ UNCHANGED <<dqVars, liVars, excVars, poolVars, joinVars, forkVars, schedVars, stackVars, fibreVars>>

Spec == Init /\ [][Next]_vars

InitParts ==
  InitPool(NWorkers) /\ InitDeque /\ InitList /\ RestExc /\ RestPool
  /\ RestJoin /\ InitFork /\ RestSched /\ InitStack /\ InitFibre

NextDq == NextDeque /\ UNCHANGED <<rtVars, liVars, excVars, poolVars, joinVars, forkVars, schedVars, stackVars, fibreVars>>

SpecDeque == InitParts /\ [][NextDq]_vars

NextLi == NextList /\ UNCHANGED <<rtVars, dqVars, excVars, poolVars, joinVars, forkVars, schedVars, stackVars, fibreVars>>

SpecList == InitParts /\ [][NextLi]_vars

InitEx ==
  InitPool(NWorkers) /\ InitDeque /\ InitList /\ InitExc /\ RestPool
  /\ RestJoin /\ InitFork /\ RestSched /\ InitStack /\ InitFibre

NextEx == NextExc /\ UNCHANGED <<rtVars, dqVars, liVars, poolVars, joinVars, forkVars, schedVars, stackVars, fibreVars>>

SpecExc == InitEx /\ [][NextEx]_vars

OtherParts ==
  InitPool(NWorkers) /\ InitDeque /\ InitList /\ RestExc /\ RestJoin /\ InitFork /\ RestSched /\ InitStack /\ InitFibre

InitLz == OtherParts /\ InitLazy

NextLz == NextLazy /\ UNCHANGED <<rtVars, dqVars, liVars, excVars, joinVars, forkVars, schedVars, stackVars, fibreVars>>

SpecLazy == InitLz /\ [][NextLz]_vars

\* The scheduling of threads: every worker thread keeps running its loop and
\* a notified thread leaves its wait; the thread outside the pool finishes a
\* schedule it began.  Nothing makes a thread that was not notified leave
\* its wait.
FairLazy ==
  /\ \A w \in PWorkers :
       WF_vars(LazyStep(w) /\ UNCHANGED <<rtVars, dqVars, liVars, excVars, joinVars, forkVars, schedVars, stackVars, fibreVars>>)
  /\ WF_vars((ScheduleNotify \/ FutexWake(0))
               /\ UNCHANGED <<rtVars, dqVars, liVars, excVars, joinVars, forkVars, schedVars, stackVars, fibreVars>>)

SpecLazyFair == SpecLazy /\ FairLazy

InitPl == OtherParts /\ InitPools

NextPl == NextPools /\ UNCHANGED <<rtVars, dqVars, liVars, excVars, joinVars, forkVars, schedVars, stackVars, fibreVars>>

SpecStop == InitPl /\ [][NextPl]_vars

\* Shutdown of a pool whose roots return without forking: whatever work is
\* in flight completes on the worker that started it.
NextShut ==
  \/ \E w \in PWorkers : LazyStep(w) /\ ldq' = ldq
  \/ \E w \in PWorkers : WaitSpurious(w)
  \/ \E w \in PWorkers : LazyExit(w)
  \/ \E w \in PWorkers : BusyStep(w) /\ ldq' = ldq
  \/ \E w \in PWorkers : ThreadEnd(w)
  \/ ScheduleStep
  \/ DtorStep

NextSh == NextShut /\ UNCHANGED <<rtVars, dqVars, liVars, excVars, joinVars, forkVars, schedVars, stackVars, fibreVars>>

SpecShut == InitPl /\ [][NextSh]_vars

\* The scheduling of threads during shutdown: every worker thread keeps
\* running until its thread function returns, a notified thread leaves its
\* wait, and the thread outside the pool finishes the schedule and the
\* destructor it began.  Nothing makes it schedule a root or destroy the
\* pool, and nothing makes a thread that was not notified leave its wait.
FairShut ==
  /\ \A w \in PWorkers :
       WF_vars(((LazyStep(w) /\ ldq' = ldq) \/ LazyExit(w)
                  \/ (BusyStep(w) /\ ldq' = ldq) \/ ThreadEnd(w))
                 /\ UNCHANGED <<rtVars, dqVars, liVars, excVars, joinVars, forkVars, schedVars, stackVars, fibreVars>>)
  /\ WF_vars((ScheduleNotify \/ FutexWake(0) \/ DtorNotify \/ DtorJoin)
               /\ UNCHANGED <<rtVars, dqVars, liVars, excVars, joinVars, forkVars, schedVars, stackVars, fibreVars>>)

SpecShutFair == SpecShut /\ FairShut

InitJn ==
  InitPool(NWorkers) /\ InitDeque /\ InitList /\ RestExc /\ RestPool
  /\ InitJoin /\ InitFork /\ RestSched /\ InitStack /\ InitFibre

NextJn ==
  NextJoin /\ UNCHANGED <<rtVars, dqVars, liVars, excVars, poolVars, forkVars, schedVars, stackVars, fibreVars>>

SpecJoin == InitJn /\ [][NextJn]_vars

\* A child whose parent was stolen runs on a worker thread of its own, which
\* keeps executing it: its return is not put off for ever.  Nothing obliges
\* the parent to fork, a thief to steal or the parent to reach its join.
FairJoin ==
  WF_vars((\E c \in StackKinds : JFinalAwaitSuspend(c))
            /\ UNCHANGED <<rtVars, dqVars, liVars, excVars, poolVars, forkVars,
                           schedVars, stackVars, fibreVars>>)

SpecJoinFair == SpecJoin /\ FairJoin

NextFk ==
  NextFork /\ UNCHANGED <<rtVars, liVars, excVars, poolVars, joinVars, schedVars, stackVars, fibreVars>>

SpecFork == InitParts /\ [][NextFk]_vars

InitSc ==
  /\ InitPool(NWorkers) /\ InitDeque /\ InitList /\ RestExc /\ RestPool
  /\ RestJoin /\ InitFork /\ InitSched /\ InitStack /\ InitFibre

NextSc ==
  NextSched
    /\ UNCHANGED <<rtVars, dqVars, liVars, excVars, poolVars, joinVars, forkVars, stackVars, fibreVars>>

SpecSched == InitSc /\ [][NextSc]_vars

NextSt ==
  NextStack
    /\ UNCHANGED <<rtVars, dqVars, liVars, excVars, poolVars, joinVars, forkVars,
                   schedVars, fibreVars>>

SpecStack == InitParts /\ [][NextSt]_vars

NextFb ==
  NextFibre
    /\ UNCHANGED <<rtVars, dqVars, liVars, excVars, poolVars, joinVars, forkVars,
                   schedVars, stackVars>>

SpecFibre == InitParts /\ [][NextFb]_vars

\* ========================================================================
\* Part 4: properties
\* ========================================================================

\* The workers that hold the right to resume frame f: the one executing it
\* and the ones that drained its handle and have still to resume it.
Holders(f) == {w \in Workers : cur[w] = f \/ f \in SeqToSet(pending[w])}

\* C1: no task frame is resumed by two workers at the same time: at most one
\* worker holds the right to resume a frame, and a frame that is executing is
\* not held for resumption a second time.
C1_NoConcurrentResume ==
  \A f \in FrameIds :
    /\ Cardinality(Holders(f)) <= 1
    /\ \A w \in Workers : cur[w] = f => f \notin SeqToSet(pending[w])

\* The join race is on: a thief is about to publish the join of a frame
\* while the worker that finished its forked child is about to decrement.
C1_Witness ==
  \E w, v \in Workers :
    /\ wpc[w] = "join_suspend"
    /\ wpc[v] = "decr"
    /\ reg[v].par = cur[w]

\* C2: when a task continues past a join every child it forked in the scope
\* has reached its final suspension (and so has the child it called).
C2_ChildrenDoneAtJoin ==
  \A w \in Workers :
    (Running(w) /\ frame[cur[w]].rp = "after_join")
      => /\ frame[ForkChild(cur[w])].st = "dead"
         /\ frame[CallChild(cur[w])].st = "dead"

\* A thief is past the join of a stolen task, which it won itself: the worker
\* that finished the forked child has lost the race and not yet released.
C2_Witness ==
  \E w, v \in Workers :
    /\ Running(w)
    /\ frame[cur[w]].rp = "after_join"
    /\ wpc[v] = "lost"
    /\ wstack[v] = frame[cur[w]].stacklet

\* C3: sync_wait returns what the sequential fib returns.
C3_SyncWaitIsFib == mainpc = "done" => ret = fib_ref(arg)

\* sync_wait has returned fib(FibN) from a pool of several workers in a run
\* with a context switch.
C3_Witness ==
  /\ mainpc = "done"
  /\ arg = FibN
  /\ ret = fib_ref(FibN)
  /\ Cardinality(Pool) > 1
  /\ nswitch > 0


\* A step in which worker w starts to execute a suspended frame.
Resumes(w) ==
  /\ cur'[w] \in FrameIds
  /\ wpc'[w] = "run"
  /\ (cur[w] /= cur'[w] \/ wpc[w] /= "run")

\* C7 as stated: whenever a worker resumes a task its stack.top() is the
\* frame's stacklet.
C7_TopIsStackletAlways ==
  [][\A w \in Workers : Resumes(w) => wstack'[w] = frame'[cur'[w]].stacklet]_vars

\* C7, amended: at the moment of resumption the worker's stack.top() is the
\* frame's stacklet exactly when the frame's steal counter is zero (a
\* submission that was never stolen, a parent popped by its child, a parent
\* resumed through a join); a frame resumed with steals counted is on
\* another stack than the worker's.
C7_TopIsStackletIffNoSteals ==
  [][\A w \in Workers :
       Resumes(w) => (wstack'[w] = frame'[cur'[w]].stacklet
                        <=> frame'[cur'[w]].steal = 0)]_vars

\* A thief has resumed a stolen continuation: it runs the frame between the
\* fork and the call on its own stack, the frame lives on the victim's.
C7_Witness ==
  \E w \in Workers :
    /\ Running(w)
    /\ frame[cur[w]].rp = "after_fork"
    /\ frame[cur[w]].steal > 0
    /\ wstack[w] /= frame[cur[w]].stacklet

\* C8 as stated: no two workers' stacks point at the same stacklet.
C8_NoSharedStacklet ==
  \A w1, w2 \in Workers : w1 /= w2 => wstack[w1] /= wstack[w2]

\* Worker w has handed a task and its stack on (lost join race, or resume_on
\* of a task without steals) and has still to call release().
InReleaseWindow(w) ==
  \/ wpc[w] = "lost"
  \/ wpc[w] = "switch" /\ reg[w].steals = 0

\* A step changes worker w's stack only by release() (to a new stacklet) or
\* by taking the stacklet of the frame it goes on to execute (a drained
\* submission, a join that is ready or won).
StackHandOver(w) ==
  wstack'[w] /= wstack[w] =>
    \/ InReleaseWindow(w) /\ wstack'[w] \notin DOMAIN stacklets
    \/ /\ cur'[w] \in FrameIds
       /\ wpc'[w] = "run"
       /\ wstack'[w] = frame'[cur'[w]].stacklet

\* C8, amended: two workers' stacks point at the same stacklet only while
\* one of them has given the stack up and not yet called release(); among
\* the other workers every stacklet is installed at most once, and a stack
\* changes only by release() or by a take at a resumption.
C8_SharedOnlyBeforeRelease ==
  /\ [](\A w1, w2 \in Workers :
          (w1 /= w2 /\ wstack[w1] = wstack[w2])
            => (InReleaseWindow(w1) \/ InReleaseWindow(w2)))
  /\ [][\A w \in Workers : StackHandOver(w)]_vars

\* The joiner has taken the stack of the task while the worker that lost the
\* join race still points at it.
C8_Witness ==
  \E w, v \in Workers :
    /\ w /= v
    /\ wpc[v] = "lost"
    /\ wstack[w] = wstack[v]
    /\ Running(w)

\* How many times the handle of f sits in a deque or a submission list.
RECURSIVE Occurrences(_, _)
Occurrences(q, f) ==
  IF q = <<>> THEN 0 ELSE (IF Head(q) = f THEN 1 ELSE 0) + Occurrences(Tail(q), f)

RECURSIVE SumOver(_, _)
SumOver(S, f) ==
  IF S = {} THEN 0
  ELSE LET w == CHOOSE x \in S : TRUE
       IN Occurrences(deque[w], f) + Occurrences(submit[w], f) + SumOver(S \ {w}, f)

Queued(f) == SumOver(Workers, f)

Owned(f) == Cardinality(Holders(f))

\* C9 as stated: a live task is owned by exactly one worker or queued in
\* exactly one place, never both and never neither.
C9_OwnedXorQueued ==
  \A f \in FrameIds : frame[f].st = "alive" => Owned(f) + Queued(f) = 1

\* A live task nobody holds: it is suspended behind a child that has still
\* to finish, the called child or the forked child of a published join.
WaitsForChild(f) ==
  \/ frame[f].rp = "after_call" /\ frame[CallChild(f)].st = "alive"
  \/ /\ frame[f].rp = "at_join"
     /\ \/ frame[ForkChild(f)].st = "alive"
        \/ \E v \in Workers : wpc[v] = "decr" /\ reg[v].par = f

\* C9, amended: a live task is never both owned and queued and never held
\* twice (one worker or one queue slot at most, so a queued handle is not
\* being executed); a live task that is neither owned nor queued is
\* suspended waiting for one of its children.
C9_OwnedQueuedOrWaiting ==
  \A f \in FrameIds :
    frame[f].st = "alive" =>
      /\ Owned(f) + Queued(f) <= 1
      /\ (Owned(f) + Queued(f) = 0 => WaitsForChild(f))

\* A stolen task has published its join and lost: nobody holds it, it is in
\* no queue, its forked child is still running on another worker.
C9_Witness ==
  \E f \in FrameIds :
    /\ frame[f].st = "alive"
    /\ frame[f].rp = "at_join"
    /\ Owned(f) = 0
    /\ Queued(f) = 0
    /\ frame[ForkChild(f)].st = "alive"

Children(f) == {ForkChild(f), CallChild(f)} \cap FrameIds

\* C10: every frame is destroyed exactly once, by the worker that ran it to
\* its final suspension and on the stack it lives on; nothing reads or
\* resumes a destroyed frame; a parent is not destroyed while a child lives
\* or has still to decrement the join counter; nothing is left alive when
\* the root has completed.
C10_DestroyedOnce ==
  /\ viol = {}
  /\ \A f \in FrameIds :
       frame[f].st = "dead" => \A c \in Children(f) : frame[c].st /= "alive"
  /\ \A v \in Workers : wpc[v] = "decr" => frame[reg[v].par].st = "alive"
  /\ mainpc = "done" => \A f \in FrameIds : frame[f].st /= "alive"

\* The root of a run with a fork has been destroyed by the winner of the
\* join while the worker that lost the race has not yet released the stack.
C10_Witness ==
  /\ arg >= 2
  /\ frame[Root].st = "dead"
  /\ \E v \in Workers : wpc[v] = "lost"


\* The handles successful pops and steals have returned.
Returned == {log[i].val : i \in 1..Len(log)}

\* The slots m_top .. m_bottom - 1 of the current buffer, top first.
Contents == [i \in 1..(m_bottom - m_top) |-> load(heap[m_buf], m_top + i - 1)]

\* C4: under every interleaving of the owner's push and pop with the steals,
\* every pushed handle is returned at most once and only after it was
\* pushed, steals return handles in the order they were pushed, a pop
\* returns the most recently pushed handle not yet returned, and whenever the
\* owner is between calls the buffer holds exactly the handles not yet
\* returned, oldest at the top.
C4_ChaseLev ==
  /\ \A i, j \in 1..Len(log) : i < j => log[i].val /= log[j].val
  /\ \A i \in 1..Len(log) : log[i].val \in 1..log[i].n
  /\ \A i, j \in 1..Len(log) :
       (i < j /\ log[i].op = "steal" /\ log[j].op = "steal") => log[i].val < log[j].val
  /\ \A i \in 1..Len(log) :
       log[i].op = "pop" =>
         \A u \in (log[i].val + 1)..log[i].n : \E k \in 1..(i - 1) : log[k].val = u
  /\ opc = "idle" =>
       /\ SeqToSet(Contents) = (1..npushed) \ Returned
       /\ \A i, j \in 1..Len(Contents) : i < j => Contents[i] < Contents[j]

\* The owner's pop and every thief are about to compare-exchange m_top for
\* the same last handle.
C4_Witness ==
  /\ opc = "pop_cas"
  /\ \A t \in Thieves : tpc[t] = "cas" /\ tl[t].top = ol.top

\* The step of push that replaces the buffer.
ResizeStep == opc = "push_resize" /\ opc' = "push_store"

\* What the resize has to establish: the buffer was full, the new one is
\* twice as big and holds the slots [top, bottom) of the old one and nothing
\* else, the old one is kept unchanged in m_garbage.
ResizeCopies ==
  LET old == heap[m_buf]
      new == heap'[m_buf']
      range == ol.top..(ol.bottom - 1)
  IN /\ ol.bottom - ol.top >= capacity(old)
     /\ capacity(new) = 2 * capacity(old)
     /\ \A i \in range : load(new, i) = load(old, i) /\ load(new, i) /= Junk
     /\ \A k \in 0..(capacity(new) - 1) :
          k \notin {i % capacity(new) : i \in range} => new.slots[k] = Junk
     /\ heap'[m_buf] = old
     /\ m_buf \in SeqToSet(m_garbage')
     /\ m_buf' /= m_buf

\* C5: a push onto a full buffer of capacity c installs a buffer of capacity
\* 2c with exactly the elements at [top, bottom), then stores the new element
\* at bottom; a thief that can still win its compare-exchange holds the
\* handle that is at the top of the current buffer, a pushed one not yet
\* returned, also when it read it from a retired buffer.
C5_ResizeKeepsElements ==
  /\ [][ResizeStep => ResizeCopies]_vars
  /\ [](opc = "push_publish" => load(heap[m_buf], ol.bottom) = ol.val)
  /\ [](\A t \in Thieves :
          (tpc[t] = "cas" /\ tl[t].top = m_top)
            => /\ tl[t].val = load(heap[m_buf], m_top)
               /\ tl[t].val \in (1..npushed) \ Returned)

\* A thief has read its handle from a buffer that the owner has retired, and
\* its compare-exchange is going to succeed.
C5_Witness ==
  \E t \in Thieves :
    /\ tpc[t] = "cas"
    /\ tl[t].buf \in SeqToSet(m_garbage)
    /\ tl[t].top = m_top

RECURSIVE Flat(_)
Flat(ss) == IF ss = <<>> THEN <<>> ELSE Head(ss) \o Flat(Tail(ss))

IsPrefix(a, b) == Len(a) <= Len(b) /\ SubSeq(b, 1, Len(a)) = a

\* C6: the nodes the calls of try_pop_all returned, one call after the
\* other, are the nodes pushed, each once, in the order the pushes took
\* effect; whenever the owner is between calls the nodes pushed and not yet
\* returned are the ones linked from m_head, newest first.
C6_ListDrainsFifo ==
  /\ IsPrefix(Flat(drains), effect)
  /\ lpc = "idle" => Flat(drains) \o Reverse(Walk(m_next, m_head)) = effect

\* There have been two drains, one of them with two nodes whose pushes took
\* effect in the other order than they began.
C6_Witness ==
  /\ Len(drains) >= 2
  /\ \E i \in 1..Len(drains) : Len(drains[i]) >= 2 /\ drains[i][1] > drains[i][2]

\* ------------------------------------------------------------------------
\* Exceptions (SpecExc)
\* ------------------------------------------------------------------------

\* The exceptions the children of f that cannot stash ended their bodies with.
ThrownInto(f) ==
  {xterm[c] : c \in {d \in XChildren(f) :
                       ~XStash(d) /\ xterm[d] \notin {"none", "ok"}}}

\* Frame f is being resumed out of its join by some worker.
AtJoinResume(f) ==
  /\ \E w \in XWorkers : XRunning(w) /\ xcur[w] = f
  /\ xframe[f].ph = "resume"
  /\ XOp(f).op = "join"

ResumesFromDispatch(w) ==
  /\ XRunning(w)
  /\ xcur[w] = "M"
  /\ xframe["M"].ph = "resume"
  /\ xframe["M"].ip = 2
  /\ xframe'["M"].ph /= "resume"

\* C13: when an eager_throw call, or a sync fork that completed
\* synchronously, returns inside a fork-join scope with has_exception set,
\* the parent is resumed with the real exception if its steal counter is 0,
\* and with exception_before_join, flag and slot untouched, if it is not.
C13_EagerThrowAsStated ==
  [][\A w \in XWorkers :
       /\ ResumesFromDispatch(w)
       /\ xcfg.mod \in {"eager_throw", "sync"}
       /\ xframe["M"].steal = xframe["M"].pre \/ xcfg.mod = "eager_throw"
       /\ xframe["M"].except
       => /\ xframe'["M"].ph = "throw"
          /\ IF xframe["M"].steal = 0
             THEN xframe'["M"].exc = xframe["M"].eptr
             ELSE /\ xframe'["M"].exc = "ebj"
                  /\ xframe'["M"].except
                  /\ xframe'["M"].eptr = xframe["M"].eptr]_vars

\* What C13 says, for the dispatches whose child stashes its own exception:
\* the only ones await_transform gives a throwing awaitable to.
C13_EagerThrowWhenStashing ==
  [][\A w \in XWorkers :
       /\ ResumesFromDispatch(w)
       /\ xcfg.stash
       /\ xcfg.mod \in {"eager_throw", "sync"}
       /\ xframe["M"].steal = xframe["M"].pre \/ xcfg.mod = "eager_throw"
       /\ xframe["M"].except
       => /\ xframe'["M"].ph = "throw"
          /\ IF xframe["M"].steal = 0
             THEN xframe'["M"].exc = xframe["M"].eptr
             ELSE /\ xframe'["M"].exc = "ebj"
                  /\ xframe'["M"].except
                  /\ xframe'["M"].eptr = xframe["M"].eptr]_vars

\* ------------------------------------------------------------------------
\* The lazy pool (SpecLazy, SpecLazyFair)
\* ------------------------------------------------------------------------

\* S_i: the workers of domain d that sleep, blocked in wait and not notified.
Sleeping(d) == {w \in WorkersOf(d) : wkpc[w] = "blocked" /\ ~ltoken[w]}

\* C14, as stated: in every state, A > 0 implies T_i >= 1 or S_i = 0 for
\* every domain i.
C14_InvariantAsStated ==
  active > 0 =>
    \A d \in Domains : thief[d] >= 1 \/ Cardinality(Sleeping(d)) = 0

\* The threads that have taken a step of a transition and owe domain d the
\* step that completes it: a worker of d that made T_d zero and has not yet
\* called notify_one, the first active worker whose loop over numa has not
\* passed d, a thread inside a notify on d that has added to the epoch and
\* not yet woken anyone, and a worker of d that left the thieves as the
\* last one and has still to look at A.
Restoring(d) ==
  \/ \E w \in WorkersOf(d) : wkpc[w] \in {"tws_notify", "check_active"}
  \/ \E w \in PWorkers : wkpc[w] = "tws_scan" /\ lscan[w] <= d
  \/ \E c \in Callers : lwake[c].d = d

\* The workers of domain d that have been woken, or have woken themselves,
\* and have not yet added themselves to T_d at wake_up.
Waking(d) ==
  {w \in WorkersOf(d) :
     \/ wkpc[w] \in {"wait_dec", "wake_up", "cancel_self"}
     \/ wkpc[w] = "blocked" /\ ltoken[w]
     \/ wkpc[w] = "wait" /\ epoch[d] /= lkey[w]}

\* C14: the counters never go wrong and, whenever A > 0 while some domain
\* has sleepers and no thief, the step that restores the invariant in that
\* domain is already owed by a thread in the middle of a transition, or a
\* worker of the domain is on its way from its wait to wake_up.
C14_InvariantUpToTransitions ==
  /\ active \in 0..PoolWorkers
  /\ \A d \in Domains : thief[d] \in 0..Cardinality(WorkersOf(d))
  /\ active > 0 =>
       \A d \in Domains :
         thief[d] >= 1 \/ Sleeping(d) = {} \/ Restoring(d) \/ Waking(d) /= {}

\* C14 witness: a worker sleeps in a domain without thieves while the first
\* active worker, having just made A positive, has still to notify it.
C14_Witness ==
  /\ active > 0
  /\ \E d \in Domains :
       /\ thief[d] = 0
       /\ Sleeping(d) /= {}
       /\ Waking(d) = {}
       /\ \E w \in PWorkers : wkpc[w] = "tws_scan" /\ lscan[w] <= d

\* C15: no wake-up is missed: once worker_context::schedule has pushed a root
\* on a worker's submission list, that worker eventually drains the list and
\* resumes the root, wherever it was between prepare_wait and wait.
C15_NoMissedWakeup ==
  \A r \in Roots : (rstate[r] = "pushed") ~> (rstate[r] \in {"started", "done"})

\* C15 witness: schedule has pushed the root and called notify_all while the
\* root's worker was blocked in wait: the worker holds the notification and
\* the root is still on its list.
C15_Witness ==
  /\ mpc = "idle"
  /\ \E w \in PWorkers :
       /\ lsub[w] /= << >>
       /\ rstate[Head(lsub[w])] = "pushed"
       /\ wkpc[w] = "blocked"
       /\ ltoken[w]

\* ------------------------------------------------------------------------
\* Shutdown of the pools (SpecStop)
\* ------------------------------------------------------------------------

\* The roots scheduled so far; the outside thread schedules them all before
\* it starts the destructor.
Submitted == {r \in Roots : rstate[r] /= "new"}

C16_DoneUnlessPushedLate ==
  /\ \A w \in PWorkers :
       pkind = "busy" /\ wkpc[w] \in {"left", "latch_wait", "exited"} =>
         lsub[w] = << >> /\ lpend[w] = << >> /\ stop
  /\ mpc = "returned" =>
       \A r \in Submitted :
         \/ rstate[r] = "done"
         \/ pkind = "lazy" /\ late[r] /\ rstate[r] = "pushed"

\* C16 witness: the destructor of a lazy pool has returned after the root,
\* whose forked parent was stolen, ran to completion.
C16_Witness ==
  /\ mpc = "returned"
  /\ pkind = "lazy"
  /\ \E r \in Submitted : rstate[r] = "done" /\ arrived[r] = 2

\* The busy pool's side of C16: its destructor returns with every root done.
C16_BusyDrains ==
  pkind = "busy" /\ mpc = "returned" => \A r \in Submitted : rstate[r] = "done"

\* ------------------------------------------------------------------------
\* The counters of a fork-join scope (SpecJoin)
\* ------------------------------------------------------------------------

\* The parent published its join and no child has completed it yet.
JoinPending == jpar = "waiting"

\* A thief took the parent's handle and has not counted its steal yet.
StealUncounted == IF jpar = "stolen" THEN 1 ELSE 0

\* C17 as the specification states it: the steal counter stays within 16
\* bits, and whenever a join is pending on the frame the number
\* k_u16_max - m_join lies between 0 and the steal counter; no operation on
\* the join counter wraps around.
C17_BoundsAsStated ==
  /\ jsteal \in 0..k_u16_max
  /\ JoinPending =>
       /\ 0 <= k_u16_max - jjoin
       /\ k_u16_max - jjoin <= jsteal
  /\ ~jwrap

\* C17, what the code keeps: the steal counter stays within 16 bits; while
\* no join is published k_u16_max - m_join is the number of children that
\* returned, at most the steal counter plus the one steal a thief has still
\* to count; while a join is pending m_join is the number of children still
\* owed, between 1 and the steal counter; no operation on the join counter
\* wraps around.
C17_CounterBounds ==
  /\ jsteal \in 0..k_u16_max
  /\ jjoin \in 0..k_u16_max
  /\ jpar \in {"run", "forked", "stolen", "join_suspend"} =>
       /\ k_u16_max - jjoin = jstolen - jkids
       /\ k_u16_max - jjoin <= jsteal + StealUncounted
  /\ JoinPending =>
       /\ jjoin = jkids
       /\ 1 <= jjoin
       /\ jjoin <= jsteal
  /\ ~jwrap

\* C17's case: a join is pending on a frame with two or more counted steals
\* and one child is still owed.
C17_Witness ==
  /\ JoinPending
  /\ jsteal >= 2
  /\ jjoin = 1

\* A child returned between the steal of its parent and the thief's count.
C17_ChildBeforeCount ==
  /\ jpar = "stolen"
  /\ k_u16_max - jjoin = jsteal + 1

\* C18 as the specification states it: for every number of stolen forks up
\* to k_u16_max, a child resumes the parent only after the parent published
\* its join, and the parent is continued past its join at most once.
C18_ResumedOnlyAfterJoin ==
  /\ jviol = {}
  /\ jresumes <= 1

\* What the code keeps for C18: a parent resumed before it published a join
\* is one with k_u16_max stolen forks in the scope.
C18_CorrectBelowMax ==
  jviol /= {} => jstolen = k_u16_max

\* The k_u16_max-th stolen fork of a scope has been resumed past its join by
\* its last child after it published the join.
C18_MaxForksJoined ==
  /\ jstolen = k_u16_max
  /\ jpar = "after_join"
  /\ jresumes = 1
  /\ jviol = {}

\* ------------------------------------------------------------------------
\* The counters outside a fork-join region (Spec)
\* ------------------------------------------------------------------------

\* Worker w executes a frame that a join has just resumed or that has reached
\* its final suspension: the places of the assertions in
\* join_awaitable::await_resume and promise::final_suspend.
OutsideRegion(w) ==
  /\ Running(w)
  /\ frame[cur[w]].rp = "after_join" \/ AtReturn(w)

\* C19: whenever a task is resumed by a join or reaches its final suspension
\* its join counter is k_u16_max and its steal counter is 0.
C19_CountersResetOutsideRegion ==
  \A w \in Workers :
    OutsideRegion(w) =>
      /\ frame[cur[w]].steal = 0
      /\ frame[cur[w]].join = k_u16_max

\* The root task continues past its join on a worker that won it, with the
\* counters reset, while the worker that ran the stolen fork's child has lost
\* the join race: the join ended a region with a counted steal.
C19_Witness ==
  \E w, v \in Workers :
    /\ w /= v
    /\ OutsideRegion(w)
    /\ TagOf(cur[w]) = "root"
    /\ frame[cur[w]].rp = "after_join"
    /\ frame[cur[w]].steal = 0
    /\ frame[cur[w]].join = k_u16_max
    /\ wpc[v] = "lost"

\* The end of a scope in the counter-level model: the parent continues past
\* its join with both counters reset.
C19_ScopeEndsReset ==
  jpar = "after_join" => jsteal = 0 /\ jjoin = k_u16_max

\* ------------------------------------------------------------------------
\* A join without steals (Spec)
\* ------------------------------------------------------------------------

\* Worker w awaits the join of a frame whose steal counter is 0, and the step
\* is that co_await.
JoinsWithoutSteals(w) ==
  /\ Running(w)
  /\ frame[cur[w]].rp = "after_call"
  /\ frame[cur[w]].steal = 0
  /\ frame'[cur[w]].rp /= "after_call"

\* C20: a join awaited on a frame whose steal counter is 0 completes in that
\* step on the same worker, and leaves the frame's join counter, its steal
\* counter and the worker's stack as they were.
C20_JoinWithoutStealsIsSync ==
  [][\A w \in Workers :
       JoinsWithoutSteals(w) =>
         /\ cur'[w] = cur[w]
         /\ wpc'[w] = "run"
         /\ frame'[cur[w]].rp = "after_join"
         /\ frame'[cur[w]].join = frame[cur[w]].join
         /\ frame'[cur[w]].steal = frame[cur[w]].steal
         /\ wstack'[w] = wstack[w]
         /\ stacklets' = stacklets]_vars

\* The only worker of a pool, which nobody can steal from, is past the join
\* of the root task: the join found no steals and did not suspend.
C20_Witness ==
  \E w \in Workers :
    /\ Pool = {w}
    /\ Running(w)
    /\ TagOf(cur[w]) = "root"
    /\ frame[cur[w]].rp = "after_join"
    /\ wstack[w] = frame[cur[w]].stacklet

\* ------------------------------------------------------------------------
\* A join reached after every child has returned (Spec)
\* ------------------------------------------------------------------------

\* The child forked by f has returned and, if f was stolen from under it,
\* has applied its decrement to f's join counter.
ForkedChildDone(f) ==
  /\ frame[ForkChild(f)].st = "dead"
  /\ \A v \in Workers : ~(wpc[v] = "decr" /\ reg[v].par = f)

\* Worker w awaits the join of its frame in this step, every child of the
\* frame having returned before.
JoinsAfterChildren(w) ==
  /\ Running(w)
  /\ frame[cur[w]].rp = "after_call"
  /\ ForkedChildDone(cur[w])
  /\ frame'[cur[w]].rp /= "after_call"

\* C21: a task whose children have all returned before it reaches the join
\* finds steals = k_u16_max - joins there, is not suspended, and continues on
\* the same worker owning its stacklet and with its counters reset.
C21_JoinAfterChildrenReady ==
  [][\A w \in Workers :
       JoinsAfterChildren(w) =>
         /\ frame[cur[w]].steal = k_u16_max - frame[cur[w]].join
         /\ cur'[w] = cur[w]
         /\ wpc'[w] = "run"
         /\ frame'[cur[w]].rp = "after_join"
         /\ wstack'[w] = frame'[cur[w]].stacklet
         /\ frame'[cur[w]].steal = 0
         /\ frame'[cur[w]].join = k_u16_max]_vars

\* A thief continues the root past its join on the root's stacklet, which is
\* not the stack the thief started with (no resume_on in the run); the worker
\* that ran the stolen fork's child has decremented, given up that stacklet
\* and is back in its loop.
C21_Witness ==
  \E w, v \in Workers :
    /\ w /= v
    /\ nswitch = 0
    /\ Running(w)
    /\ TagOf(cur[w]) = "root"
    /\ frame[cur[w]].rp = "after_join"
    /\ wstack[w] = frame[cur[w]].stacklet
    /\ wstack[w] /= w
    /\ wpc[v] \in {"loop", "steal"}
    /\ wstack[v] /= wstack[w]

\* ------------------------------------------------------------------------
\* A fork whose push throws (SpecFork)
\* ------------------------------------------------------------------------

\* The step in which the exception leaves deque::push.
PushThrowsNow == opc = "push_resize" /\ opc' = "idle"

\* The owner's part of the deque is what it was when the failed push began.
DequeAsBeforePush ==
  /\ m_bottom = fsnap.bottom
  /\ m_buf = fsnap.buf
  /\ heap[m_buf] = fsnap.content
  /\ m_garbage = fsnap.garbage

\* C22: when the push of a fork throws, the child has not started and never
\* does (its handle is never obtained from the deque), the child's frame has
\* been destroyed once and is not destroyed again, the throwing step changes
\* nothing of the deque, whose bottom, buffer and elements are those the push
\* found, and the parent goes on, on the owner's thread, with the exception.
C22_ForkPushThrows ==
  /\ [](/\ fk.parent = "rethrow" =>
             /\ fk.child = "destroyed"
             /\ fdestroyed = 1
             /\ opc = "idle"
             /\ DequeAsBeforePush
        /\ fk.child = "destroyed" => fdestroyed = 1
        /\ \A i \in 1..Len(log) : log[i].val \notin fthrown
        /\ \A i \in m_top..(m_bottom - 1) : load(heap[m_buf], i) \notin fthrown)
  /\ [][PushThrowsNow =>
          /\ UNCHANGED <<m_top, m_bottom, m_buf, m_garbage, heap>>
          /\ fk.child = "created"
          /\ fk'.parent = "rethrow"]_vars

\* The parent has been resumed with the exception of the push that failed to
\* grow the full deque; the continuation of an earlier fork is still in it.
C22_Witness ==
  /\ fk.parent = "rethrow"
  /\ fk.child = "destroyed"
  /\ fthrown /= {}
  /\ m_bottom > m_top

\* ------------------------------------------------------------------------
\* schedule on a worker thread, and future::get (SpecSched)
\* ------------------------------------------------------------------------

\* A call of schedule begins in this step, on a thread with has_stack or
\* has_context set.
ScheduleCalledInWorker ==
  /\ cpc = "idle"
  /\ has_stack \/ has_context
  /\ cexc' = "schedule_in_worker" \/ cpc' = "constructed"

\* C23: schedule on a thread that has has_stack or has_context set throws
\* schedule_in_worker and does nothing else: no shared state and no task is
\* built, nothing reaches the scheduler, and the thread-local flags and stack
\* are left as they were.
C23_ScheduleInWorkerThrows ==
  [][ScheduleCalledInWorker =>
       /\ cexc' = "schedule_in_worker"
       /\ cpc' = "idle"
       /\ UNCHANGED <<has_stack, has_context, thread_stack, futs, ssub>>]_vars

\* A worker thread has called schedule and got schedule_in_worker.
C23_Witness ==
  /\ cexc = "schedule_in_worker"
  /\ has_context
  /\ thread_stack = "worker"
  /\ ssub = <<>>

\* The order of the states of a future.
StatusRank(st) ==
  IF st = "none" THEN 0
  ELSE IF st = "no_wait" THEN 1
  ELSE IF st = "ready" THEN 2 ELSE 3

\* A call of get on future f returns or throws in this step.
GetEnds(f) == Len(gets'[f]) = Len(gets[f]) + 1

\* C24: the first get on a future returns only once the root task is done,
\* and returns its value or rethrows its exception; every later get throws
\* empty_future and does so without waiting; the status never moves back.
C24_GetOnce ==
  /\ [](\A f \in Futures :
          \A i \in 1..Len(gets[f]) :
            IF i = 1 THEN /\ gets[f][i] = futs[f].res
                          /\ gets[f][i] \in {"value", "exception"}
                          /\ futs[f].root = "done"
                     ELSE gets[f][i] = "empty_future")
  /\ [][\A f \in Futures :
          /\ StatusRank(futs'[f].status) >= StatusRank(futs[f].status)
          /\ (GetEnds(f) /\ Len(gets[f]) >= 1) =>
               /\ futs[f].status = "retrievd"
               /\ futs'[f] = futs[f]
          /\ (cpc' = "get_ready" /\ cfut' = f /\ cpc = "idle"
                /\ Len(gets[f]) >= 1) => futs[f].status = "retrievd"]_vars

\* A second get on a future whose root threw has thrown empty_future; the
\* first one rethrew the root's exception.
C24_Witness ==
  \E f \in Futures :
    /\ Len(gets[f]) = 2
    /\ gets[f][1] = "exception"
    /\ gets[f][2] = "empty_future"
    /\ futs[f].status = "retrievd"

\* C25: every allocation handed out by allocate and not yet given back lies
\* in a stacklet that is still allocated, below that stacklet's stack
\* pointer and inside its capacity, and shares no unit with any other live
\* allocation, in every LIFO sequence of allocate and deallocate, growth of
\* the stack and reuse of the cached stacklet included; no assertion of the
\* stack fails.
AllocInPlace(a) ==
  /\ a.id \in DOMAIN sk
  /\ a.off + a.size <= sk[a.id].m_sp
  /\ sk[a.id].m_sp <= sk[a.id].m_hi

AllocsDisjoint(a, b) ==
  a.id = b.id => (a.off + a.size <= b.off \/ b.off + b.size <= a.off)

C25_AllocationsKeepTheirPlace ==
  /\ sviol = {}
  /\ \A i \in 1..Len(allocs) : AllocInPlace(allocs[i])
  /\ \A i \in 1..Len(allocs) : \A j \in 1..Len(allocs) :
       i < j => AllocsDisjoint(allocs[i], allocs[j])

\* An allocation that made the stack grow is alive under a later one that
\* went into the cached stacklet.
C25_Witness ==
  \E i \in 1..Len(allocs) : \E j \in 1..Len(allocs) :
    /\ i < j
    /\ allocs[i].how = "grown"
    /\ allocs[i].size > 0
    /\ allocs[j].how = "cached"
    /\ allocs[j].size > 0

\* C26: a parent whose join was published with children still owed is
\* eventually continued past the join, and continued once.  The worker that
\* executes the join continues the parent itself exactly when no stolen
\* child is still to decrement m_join at the join's fetch_sub; otherwise
\* the parent waits, stays waiting while more than one child is owed, and is
\* continued by the step of the child that decrements last.
JoinerContinues == jpar = "join_suspend" /\ jpar' = "after_join"

JoinerSuspends == jpar = "join_suspend" /\ jpar' = "waiting"

WaitingEnds == jpar = "waiting" /\ jpar' /= "waiting"

C26_ResumeStep ==
  /\ JoinerContinues =>
       (jkids = 0 /\ jkids' = 0 /\ jresumes' = jresumes + 1 /\ jby' = "joiner")
  /\ JoinerSuspends =>
       (jkids > 0 /\ jkids' = jkids /\ jresumes' = jresumes /\ jby' = jby)
  /\ WaitingEnds =>
       (jpar' = "after_join" /\ jkids = 1 /\ jkids' = 0
          /\ jresumes' = jresumes + 1 /\ jby' = "child")
  /\ jpar = "waiting" => jresumes' <= 1
  /\ jpar = "after_join" => UNCHANGED joinVars

C26_PendingJoinResumedOnce ==
  /\ [](jpar = "waiting" => (jkids > 0 /\ jresumes = 0 /\ jby = "nobody"))
  /\ [](jpar = "after_join" => (jkids = 0 /\ jresumes = 1))
  /\ [][C26_ResumeStep]_vars
  /\ (jpar = "waiting") ~> (jpar = "after_join")

\* The parent waited at its join and was continued by the child that
\* returned last; at least two forks of the scope were stolen.
C26_Witness ==
  /\ jpar = "after_join"
  /\ jby = "child"
  /\ jresumes = 1
  /\ jstolen >= 2
  /\ jkids = 0
  /\ jviol = {}

\* C27: when a pop finds one handle left and races any number of steals for
\* it, one operation gets the handle and no other does.  A pop whose
\* compare-exchange fails lost the handle to a steal that returned it; a pop
\* whose compare-exchange succeeds takes a handle nobody returned and every
\* steal still aiming at that slot fails; a steal reports lost only when
\* another call's compare-exchange took the slot it aimed at.  When the owner and all thieves are between calls, m_bottom is
\* not below m_top, the deque holds exactly the handles not returned, and it
\* is empty with m_bottom = m_top once the last handle was taken.
PopLosesLast == opc = "pop_cas" /\ opc' = "pop_restore"

PopWinsLast == opc = "pop_cas" /\ opc' = "pop_restore_won"

StealLoses(t) == tpc[t] = "cas" /\ tpc'[t] = "idle" /\ log' = log

LastHandle == load(heap[ol.buf], ol.bottom)

StolenHandles == {log[i].val : i \in {k \in 1..Len(log) : log[k].op = "steal"}}

C27_RaceStep ==
  /\ PopLosesLast => (LastHandle \in StolenHandles /\ m_top' = ol.top + 1)
  /\ PopWinsLast =>
       /\ LastHandle \notin Returned
       /\ \A t \in Thieves :
            (tpc[t] = "cas" /\ tl[t].top = ol.top) => m_top' /= tl[t].top
  /\ \A t \in Thieves :
       StealLoses(t) => (tl[t].top < m_top /\ m_top' = m_top)

AllBetweenCalls == opc = "idle" /\ \A t \in Thieves : tpc[t] = "idle"

C27_LastHandleRace ==
  /\ [][C27_RaceStep]_vars
  /\ [](opc = "pop_restore_won" =>
          (LastHandle \notin Returned /\ m_top = ol.bottom + 1))
  /\ [](AllBetweenCalls =>
          /\ m_top <= m_bottom
          /\ m_bottom - m_top = npushed - Len(log)
          /\ (Returned = 1..npushed => m_bottom = m_top))

\* The owner's pop lost the second slot's handle to a thief, the other thief
\* is about to lose it too.
C27_Witness ==
  /\ opc = "pop_restore"
  /\ ol.bottom = 1
  /\ ol.top = 1
  /\ m_top = 2
  /\ m_bottom = 1
  /\ log /= <<>>
  /\ Last(log).op = "steal"
  /\ \E t \in Thieves : tpc[t] = "cas" /\ tl[t].top = 1

\* C28: whenever a forked child is about to return and its worker's deque is
\* not empty, the handle at the bottom of that deque is the continuation of
\* the child's own parent, after context switches and self-steals too; the
\* step that pops it leaves the parent's m_join and m_steal as they were,
\* and the same worker goes on executing the parent on the stack it held.
ForkReturnsPopping(w) ==
  AtReturn(w) /\ TagOf(cur[w]) = "fork" /\ deque[w] /= <<>>

PopsParent(w) ==
  LET p == ParentOf(cur[w])
  IN  /\ deque'[w] = Front(deque[w])
      /\ cur'[w] = p
      /\ wpc'[w] = "run"
      /\ frame'[p].join = frame[p].join
      /\ frame'[p].steal = frame[p].steal
      /\ frame'[p].st = "alive"
      /\ wstack'[w] = wstack[w]
      /\ wstack[w] = frame[p].stacklet

C28_PopReturnsParent ==
  /\ [](\A w \in Workers :
          ForkReturnsPopping(w) => Last(deque[w]) = ParentOf(cur[w]))
  /\ [][\A w \in Workers :
          (ForkReturnsPopping(w) /\ frame'[cur[w]].st = "dead")
            => PopsParent(w)]_vars
  /\ [](viol = {})

\* A forked child is about to return to a parent whose handle is in the
\* deque, on a worker that holds two handles, after a context switch.
C28_Witness ==
  \E w \in Workers :
    /\ ForkReturnsPopping(w)
    /\ nswitch > 0
    /\ Len(deque[w]) >= 2

\* C29 as stated: a forked child whose parent was stolen and whose decrement
\* of m_join is not the last one of a published join always makes its worker
\* release the stack it holds.
ReturnsEarly == jkids' = jkids - 1 /\ jresumes' = jresumes

C29_AlwaysReleases == [][ReturnsEarly => jlast' = "released"]_vars

\* C29: such a child's worker resumes no task: the parent stays where it is
\* and m_join goes down by one.  The worker gives up its stack exactly when
\* the parent lives on the stack it holds; a worker whose stack the parent
\* is not on keeps that stack.
C29_EarlyStep ==
  /\ jpar' = jpar
  /\ jby' = jby
  /\ jjoin' = U16(jjoin + k_u16_max)
  /\ jrun' = jrun
  /\ jcs'["parents"] < jcs["parents"] => jlast' = "released"
  /\ jcs'["own"] < jcs["own"] => jlast' = "kept"

C29_ReleasesOnlyParentsStack ==
  /\ [][ReturnsEarly => C29_EarlyStep]_vars
  /\ [](jcs["parents"] <= 1 /\ jcs["parents"] + jcs["own"] = jkids)
  /\ [](jrun = "parents" => jcs["parents"] = 0)

\* A child forked by a thief of the parent has returned early and its worker
\* kept its stack, while the child forked by the parent's first worker is
\* still running on the parent's stack.
C29_Witness ==
  /\ jlast = "kept"
  /\ jcs["parents"] = 1
  /\ jpar \in {"run", "forked", "stolen", "join_suspend", "waiting"}
  /\ jviol = {}

\* C30 as stated: once a join is published with N stolen children still owed,
\* m_join is U16_MAX - N.
C30_PendingIsMaxMinusOwed == jpar = "waiting" => jjoin = k_u16_max - jkids

\* C30: m_join holds one of two encodings.  Until the join's fetch_sub it is
\* U16_MAX minus the number of stolen children of the scope that have
\* returned; from the fetch_sub until the parent is continued it is the
\* number of stolen children still owed, which is at least one.
StolenReturned == jstolen - jkids

C30_TwoPhases ==
  /\ jpar \in {"run", "forked", "stolen", "join_suspend"}
       => jjoin = k_u16_max - StolenReturned
  /\ jpar = "waiting" => (jjoin = jkids /\ jkids >= 1)
  /\ jpar = "after_join" => (jjoin = k_u16_max /\ jkids = 0)

\* A join is published with two stolen children owed, after a third one
\* returned before the join.
C30_Witness ==
  /\ jpar = "waiting"
  /\ jkids = 2
  /\ jjoin = 2
  /\ jsteal = 3
  /\ jstolen = 3

\* C31 as stated: the stack is released before the task is handed over, so
\* no worker's stack points at the stacklet of a task without steals that
\* waits in a submission list or runs on another worker after a switch.
HandedOver(f) ==
  \E d \in Workers : f \in SeqToSet(submit[d]) \cup SeqToSet(pending[d]) \cup {cur[d]}

C31_ReleasedBeforeHandOver ==
  \A w \in Workers :
    wpc[w] = "switch" =>
      \A f \in FrameIds :
        (HandedOver(f) /\ frame[f].st = "alive" /\ frame[f].steal = 0)
          => wstack[w] /= frame[f].stacklet

\* C31: the worker loads the task's steal counter, hands the task to the
\* destination and only then releases its stack, which it does exactly when
\* the counter it loaded was zero.  With no steals the stack it holds is
\* the task's, with steals it is not.  Between the hand-over and the
\* release the destination may already run the task on that stacklet; the
\* source executes no frame in that window, and once it has released no
\* stack but the resumer's points at the stacklet.
HandsOver(w) == wpc[w] = "run" /\ wpc'[w] = "switch"

AfterHandOver(w) == wpc[w] = "switch" /\ wpc'[w] /= "switch"

C31_HandOverStep(w) ==
  LET f == cur[w]
  IN  /\ reg'[w].steals = frame[f].steal
      /\ wstack'[w] = wstack[w]
      /\ (frame[f].steal = 0 <=> wstack[w] = frame[f].stacklet)
      /\ \E d \in Workers \ {w} : submit'[d] = <<f>> \o submit[d]
      /\ cur'[w] = NoFrame

C31_ReleaseStep(w) ==
  /\ IF reg[w].steals = 0
       THEN /\ wstack'[w] \notin DOMAIN stacklets
            /\ wstack'[w] \in DOMAIN stacklets'
            /\ stacklets'[wstack'[w]] = 0
       ELSE /\ wstack'[w] = wstack[w]
            /\ stacklets' = stacklets
  /\ \A v \in Workers \ {w} : wstack'[v] = wstack[v]
  /\ wpc'[w] = "selfsteal"

C31_ReleaseAfterHandOver ==
  /\ [][\A w \in Workers : HandsOver(w) => C31_HandOverStep(w)]_vars
  /\ [][\A w \in Workers : AfterHandOver(w) => C31_ReleaseStep(w)]_vars
  /\ [](\A w \in Workers : wpc[w] = "switch" => cur[w] = NoFrame)
  /\ [](\A w, d \in Workers :
          (w /= d /\ wstack[w] = wstack[d] /\ wpc[w] /= "switch" /\ wpc[d] /= "switch")
            => (wpc[w] = "lost" \/ wpc[d] = "lost"))

\* The destination runs the switched task on the task's stacklet while the
\* source has not yet released it.
C31_Witness ==
  \E w, d \in Workers :
    /\ w /= d
    /\ wpc[w] = "switch"
    /\ reg[w].steals = 0
    /\ Running(d)
    /\ frame[cur[d]].steal = 0
    /\ wstack[d] = frame[cur[d]].stacklet
    /\ wstack[w] = wstack[d]

\* C32: whenever resume() has returned to the worker's loop, the worker's
\* deque is empty and its stack is a live stack without allocations; after a
\* context switch or a lost join the worker pops every ancestor left on its
\* deque, counts a steal on it and resumes it, and goes back to the loop
\* only from an empty deque.
InLoop(w) == wpc[w] \in {"loop", "drain", "steal"}

SelfSteals(w) == wpc[w] = "selfsteal" /\ wpc'[w] /= "selfsteal"

C32_SelfStealStep(w) ==
  IF deque[w] = <<>>
    THEN InLoop(w)' /\ cur'[w] = NoFrame /\ frame' = frame
    ELSE LET f == Last(deque[w])
         IN  /\ deque'[w] = Front(deque[w])
             /\ frame'[f].steal = frame[f].steal + 1
             /\ cur'[w] = f
             /\ wpc'[w] = "run"
             /\ wstack'[w] = wstack[w]

C32_LoopFindsNothingLeft ==
  /\ [](\A w \in Workers :
          InLoop(w) => /\ deque[w] = <<>>
                       /\ cur[w] = NoFrame
                       /\ wstack[w] \in DOMAIN stacklets
                       /\ stacklets[wstack[w]] = 0)
  /\ [](\A w \in Workers :
          wpc[w] = "selfsteal" => /\ wstack[w] \in DOMAIN stacklets
                                  /\ stacklets[wstack[w]] = 0)
  /\ [][\A w \in Workers : SelfSteals(w) => C32_SelfStealStep(w)]_vars

\* A worker runs the parent it popped from its own deque after the forked
\* child moved itself to the other worker: the parent counts one steal and
\* the worker is on a fresh stack.
C32_Witness ==
  \E w, d \in Workers :
    \E f \in FrameIds :
      /\ w /= d
      /\ Running(w)
      /\ cur[w] = f
      /\ frame[f].rp = "after_fork"
      /\ frame[f].steal = 1
      /\ ForkChild(f) \in SeqToSet(submit[d])
      /\ wstack[w] /= frame[f].stacklet
      /\ deque[w] = <<>>

\* C33: a lazy worker on its way to sleep first takes a wait key, then looks
\* at its submission list, then at the stop flag, and only then takes itself
\* off the thief count of its domain; if it was the last thief and sees an
\* active worker it cancels the wait and counts itself a thief again,
\* otherwise it commits the wait.  No wait is committed by a last thief that
\* saw active > 0.
Moves(w, from, to) == wkpc[w] = from /\ wkpc'[w] = to

Arrives(w, to) == wkpc[w] /= to /\ wkpc'[w] = to

Prepared(w) ==
  wkpc[w] \in {"recheck", "cancel_pop", "stop_check", "exit_cancel", "sleep_dec",
               "check_active", "cancel_self", "wait", "blocked", "wait_dec"}

C33_Order(w) ==
  LET d == DomainOf(w)
  IN  /\ Arrives(w, "recheck") =>
            /\ wkpc[w] = "prepare"
            /\ waiters'[d] = waiters[d] + 1
            /\ lkey'[w] = epoch[d]
      /\ Arrives(w, "stop_check") => wkpc[w] = "recheck" /\ lsub[w] = << >>
      /\ Arrives(w, "cancel_pop") => wkpc[w] = "recheck" /\ lsub[w] /= << >>
      /\ Arrives(w, "sleep_dec") => wkpc[w] = "stop_check" /\ ~stop
      /\ Arrives(w, "exit_cancel") => wkpc[w] = "stop_check" /\ stop
      /\ (/\ wkpc[w] \in {"prepare", "recheck", "stop_check", "check_active", "wait"}
          /\ wkpc'[w] /= wkpc[w]) => thief' = thief
      /\ wkpc[w] = "sleep_dec" /\ wkpc'[w] /= "sleep_dec" =>
            /\ thief'[d] = thief[d] - 1
            /\ wkpc'[w] = IF thief'[d] = 0 THEN "check_active" ELSE "wait"
      /\ wkpc[w] = "check_active" /\ wkpc'[w] /= "check_active" =>
            wkpc'[w] = IF active > 0 THEN "cancel_self" ELSE "wait"
      /\ wkpc[w] = "cancel_self" /\ wkpc'[w] /= "cancel_self" =>
            /\ waiters'[d] = waiters[d] - 1
            /\ wkpc'[w] = "wake_up"
      /\ Moves(w, "wake_up", "pop") => thief'[d] = thief[d] + 1
      /\ Arrives(w, "blocked") => wkpc[w] = "wait" /\ epoch[d] = lkey[w]

C33_SleepProtocol ==
  /\ [][\A w \in PWorkers : C33_Order(w)]_vars
  /\ [](\A d \in Domains :
          waiters[d] = Cardinality({w \in WorkersOf(d) : Prepared(w)}))

\* The last thief of a domain saw an active worker and is about to cancel
\* its wait, while the other worker runs a task.
C33_Witness ==
  \E w \in PWorkers :
    /\ wkpc[w] = "cancel_self"
    /\ thief[DomainOf(w)] = 0
    /\ waiters[DomainOf(w)] >= 1
    /\ active > 0

\* C34 as stated: the first active worker notifies every domain.
C34_NotifiesEveryDomain ==
  [][\A w \in PWorkers :
       (wkpc[w] = "tws_scan" /\ lscan'[w] /= lscan[w])
         => epoch'[lscan[w]] = epoch[lscan[w]] + 1]_vars

\* C34: a lazy worker with work takes itself off the thief count and owes
\* its domain a notify_one if it was the last thief; then it adds one to
\* active and, if active was 0, calls notify_one on each domain whose thief
\* count it reads as 0, and on no other domain; then it runs the work and
\* takes one off active.  active is the number of workers between the two
\* and never negative.
Leaves(w, from) == wkpc[w] = from /\ wkpc'[w] /= from

InWork(w) == wkpc[w] \in {"tws_scan", "resume", "tws_dec_active"}

C34_Step(w) ==
  LET d == DomainOf(w)
  IN  /\ Arrives(w, "tws_dec") => wkpc[w] \in {"pop", "steal", "cancel_pop"}
      /\ Leaves(w, "tws_dec") =>
            /\ thief'[d] = thief[d] - 1
            /\ wkpc'[w] = IF thief[d] = 1 THEN "tws_notify" ELSE "tws_inc"
            /\ active' = active
      /\ Leaves(w, "tws_notify") =>
            /\ epoch' = [epoch EXCEPT ![d] = @ + 1]
            /\ lwake'[w] = IF waiters[d] /= 0 THEN [d |-> d, all |-> FALSE] ELSE NoWake
            /\ wkpc'[w] = "tws_inc"
            /\ active' = active
      /\ Leaves(w, "tws_inc") =>
            /\ active' = active + 1
            /\ wkpc'[w] = IF active = 0 THEN "tws_scan" ELSE "resume"
            /\ epoch' = epoch
      /\ (wkpc[w] = "tws_scan" /\ lscan'[w] /= lscan[w]) =>
            /\ epoch' = [epoch EXCEPT ![lscan[w]] = IF thief[lscan[w]] = 0 THEN @ + 1 ELSE @]
            /\ wkpc'[w] = IF lscan[w] = nd THEN "resume" ELSE "tws_scan"
            /\ active' = active
      /\ Leaves(w, "tws_scan") => lscan[w] = nd
      /\ Leaves(w, "resume") => wkpc'[w] = "tws_dec_active" /\ active' = active
      /\ Leaves(w, "tws_dec_active") => active' = active - 1 /\ wkpc'[w] = "wake_up"

C34_ActiveCountsRunningWork ==
  /\ [][\A w \in PWorkers : C34_Step(w)]_vars
  /\ [][active' /= active =>
          \E w \in PWorkers : Leaves(w, "tws_inc") \/ Leaves(w, "tws_dec_active")]_vars
  /\ [](active = Cardinality({w \in PWorkers : InWork(w)}))
  /\ [](active >= 0)

\* The first active worker is about to pass over a domain that still has
\* a thief.
C34_Witness ==
  \E w \in PWorkers :
    /\ wkpc[w] = "tws_scan"
    /\ lwake[w] = NoWake
    /\ thief[lscan[w]] > 0
    /\ active = 1

\* C35: after every allocate, deallocate, release and take of a stack the
\* top stacklet has at most one stacklet past it, which is empty and has no
\* successor; every live stacklet is the top, below the top or that cached
\* one; and none of the is_top() assertions of the stack has failed.
RECURSIVE Below(_, _)
Below(stk, i) ==
  IF i = Null \/ i \notin DOMAIN stk THEN {} ELSE {i} \cup Below(stk, stk[i].m_prev)

Past(stk, fib) == DOMAIN stk \ Below(stk, fib)

TopKept(stk, fib) ==
  /\ fib \in DOMAIN stk
  /\ Cardinality(Past(stk, fib)) <= 1
  /\ \A c \in Past(stk, fib) :
        /\ stk[fib].m_next = c
        /\ stk[c].m_prev = fib
        /\ sk_empty(stk[c])
        /\ stk[c].m_next = Null
  /\ Past(stk, fib) = {} => stk[fib].m_next = Null
  /\ is_top(stk, fib)

C35_OneCachedStackletPastTop ==
  /\ TopKept(sk, m_fib)
  /\ parked /= <<>> => TopKept(parked[1].stk, parked[1].fib)
  /\ sviol = {}

\* A stack was released with allocations on two stacklets and a cached
\* stacklet past its top, and the stack that replaced it has since grown and
\* shrunk and keeps a cached stacklet of its own.
C35_Witness ==
  /\ parked /= <<>>
  /\ Past(parked[1].stk, parked[1].fib) /= {}
  /\ Cardinality(Below(parked[1].stk, parked[1].fib)) >= 2
  /\ Past(sk, m_fib) /= {}
  /\ allocs /= <<>>

\* C36: of the children that end with an exception their return address
\* cannot stash, the one whose exchange finds the parent's flag clear stores
\* its exception in the parent's slot and every other one is dropped; the
\* slot is written only while it is empty, and holds at most one exception
\* that has not been rethrown.
Captures(w) ==
  /\ XAt(w, "throw")
  /\ ~XStash(xcur[w])
  /\ xterm[xcur[w]] = "none"
  /\ xterm'[xcur[w]] /= "none"

Stores(w) == xpc[w] = "construct" /\ xpc'[w] /= "construct"

C36_CaptureStep(w) ==
  LET f == xcur[w]
      p == XParent(f)
  IN  /\ xframe'[p].except
      /\ xcaps' = xcaps
      /\ xframe'[p].eptr = xframe[p].eptr
      /\ IF xframe[p].except
           THEN xpc'[w] = "run" /\ xframe'[f].ph = "final"
           ELSE xpc'[w] = "construct" /\ xpar'[w] = p

C36_StoreStep(w) ==
  LET f == xcur[w]
      p == xpar[w]
  IN  /\ xframe[p].eptr = "none"
      /\ xframe[p].except
      /\ xframe'[p].eptr = xframe[f].exc
      /\ xcaps'[p] = Append(xcaps[p], xframe[f].exc)
      /\ xframe'[f].ph = "final"

C36_FirstWriterWins ==
  /\ [][\A w \in XWorkers : Captures(w) => C36_CaptureStep(w)]_vars
  /\ [][\A w \in XWorkers : Stores(w) => C36_StoreStep(w)]_vars
  /\ [][\A p \in XFrames :
          xcaps'[p] /= xcaps[p] => \E w \in XWorkers : Stores(w) /\ xpar[w] = p]_vars
  /\ [](\A p \in XFrames :
          /\ Len(xcaps[p]) <= Len(xthrown[p]) + 1
          /\ Cardinality({w \in XWorkers : xpc[w] = "construct" /\ xpar[w] = p}) <= 1
          /\ (\E w \in XWorkers : xpc[w] = "construct" /\ xpar[w] = p)
               => xframe[p].except /\ xframe[p].eptr = "none" /\ xcaps[p] = xthrown[p]
          /\ xframe[p].eptr /= "none" =>
               /\ xframe[p].except
               /\ xcaps[p] = Append(xthrown[p], xframe[p].eptr))
  /\ []("slot constructed twice" \notin xviol)

\* B found M's flag clear and has still to store exB, while A, which threw
\* on the other worker, has already found the flag set and was dropped.
C36_Witness ==
  \E w \in XWorkers :
    /\ xpc[w] = "construct"
    /\ xcur[w] = "B"
    /\ xpar[w] = "M"
    /\ xterm["A"] = "exA"
    /\ xframe["A"].ph = "final"
    /\ xframe["M"].eptr = "none"
    /\ xcaps["M"] = << >>

\* C37: once the destructor of a pool has set the stop flag every worker
\* leaves its loop, arrives at latch_stop and ends, and the destructor
\* returns from its joins; once the destructor of the lazy pool has also
\* notified every domain no worker blocks in notifier.wait any more.
Notified == stop /\ mpc \in {"dtor_join", "returned"}

AllGone == \A w \in PWorkers : wkpc[w] = "exited"

C37_StopEndsEveryWorker ==
  /\ (stop ~> (AllGone /\ latched = PoolWorkers /\ mpc = "returned"))
  /\ [][\A w \in PWorkers : Notified => ~Arrives(w, "blocked")]_vars
  /\ [](\A w \in PWorkers :
          wkpc[w] \in {"latch_wait", "exited"} => stop)
  /\ [](mpc = "returned" => AllGone)

\* The destructor of a lazy pool has set the stop flag while one worker is
\* blocked in its wait and the other is on its way to sleep, past its test
\* of the flag.
C37_Witness ==
  /\ pkind = "lazy"
  /\ stop
  /\ mpc = "dtor_notify"
  /\ \E w, v \in PWorkers :
       /\ wkpc[w] = "blocked"
       /\ ~ltoken[w]
       /\ wkpc[v] \in {"sleep_dec", "check_active", "wait"}

\* C39: finalize_worker runs on a worker's context only after every worker
\* of the pool has left its loop and arrived at latch_stop, so that no
\* worker looks for work in a pool where some context is gone.
InEventLoop(w) == wkpc[w] \notin {"left", "latch_wait", "exited"}

LooksForWork(w) ==
  /\ wkpc[w] \in {"pop", "steal", "recheck", "b_pop", "b_steal", "b_drain"}
  /\ wkpc'[w] /= wkpc[w]

C39_FinalizeAfterLatch ==
  /\ [][\A w \in PWorkers :
          (wkpc[w] /= "exited" /\ wkpc'[w] = "exited") =>
            /\ wkpc[w] = "latch_wait"
            /\ latched = PoolWorkers
            /\ \A v \in PWorkers : ~InEventLoop(v) /\ wkpc[v] /= "left"]_vars
  /\ [][\A w \in PWorkers :
          LooksForWork(w) => \A v \in PWorkers : wkpc[v] /= "exited"]_vars
  /\ [](latched = Cardinality({w \in PWorkers : wkpc[w] \in {"latch_wait", "exited"}}))
  /\ []((\E w \in PWorkers : wkpc[w] = "exited") => \A v \in PWorkers : ~InEventLoop(v))

\* One worker waits at latch_stop while the other, still in its loop, is
\* about to try to steal.
C39_Witness ==
  \E w, v \in PWorkers :
    /\ wkpc[w] = "latch_wait"
    /\ latched < PoolWorkers
    /\ wkpc[v] \in {"steal", "b_steal"}

\* C38, as stated: when sch.schedule(node) throws inside lf::schedule, the
\* root coroutine is destroyed on the stack that holds it (the assertion of
\* ~promise_base holds and the frame's memory goes back to the stacklet it
\* was allocated on, so no stacklet is left holding a destroyed root), no
\* handle to it is queued, and the caller gets the exception with the
\* thread-local stack torn down.
C38_RootCleanedUpOnItsStack ==
  /\ cviol = {}
  /\ cpc /= "aborted"
  /\ \A f \in Futures :
       futs[f].root = "destroyed" =>
         /\ rootsk[f] \notin DOMAIN sheap
         /\ \A i \in 1..Len(ssub) : ssub[i] /= f
  /\ cexc = "scheduler" => thread_stack = "none" /\ ~has_stack /\ tfib = Null

\* C40, as stated: after any FILO sequence of allocate / deallocate the stack
\* pointer of the fibre lies inside the top fibril (m_lo <= m_sp <= m_hi)
\* and every region allocate returned, of the size rounded up to the
\* alignment, lies inside one fibril.
C40_RegionsInsideOneFibril ==
  /\ m_sp.fib = Len(f_top)
  /\ m_lo.off <= m_sp.off /\ m_sp.off <= m_hi.off
  /\ \A i \in 1..Len(f_live) :
       /\ f_live[i].ptr.fib \in 1..Len(f_top)
       /\ 0 <= f_live[i].ptr.off
       /\ f_live[i].ptr.off + f_live[i].size <= f_top[f_live[i].ptr.fib]

====
